---- MODULE Spec2Model ----
(***************************************************************************)
(* A model of gitup (src/gitup.c): one invocation of main, from the local  *)
(* scan to the manifest flip.  Byte buffers are sequences of integers in   *)
(* 0..255.  SHA-1 is modelled as an ideal (injective) hash: the digest of  *)
(* a buffer is the buffer itself, so two digests are equal exactly when    *)
(* the hashed bytes are.  A 20-byte digest embedded in a tree or a commit  *)
(* is therefore stored with a length prefix.                               *)
(***************************************************************************)
EXTENDS Integers, Sequences, FiniteSets, TLC

VARIABLES
    pc,            \* position of main
    exit_code,     \* -1 while running, else the process status
    exit_at,       \* the step of main at which the process ended
    opt,           \* command line: [clone, use_pack, keep_pack, want]
    clone,         \* connection.clone
    have,          \* connection.have
    want,          \* connection.want
    agent,         \* connection.agent set (get_commit_details ran)
    disk,          \* target directory: path -> [kind, mode, data]
    target_exists, \* stat(path_target) succeeds
    manifest_old,  \* the live manifest file  <work>/<section>
    manifest_new,  \* the staging file        <work>/<section>.new
    pack_file,     \* the file named by -u / written by -k
    remote,        \* the server: [tip, reply]
    response,      \* connection.response after fetch_pack: the pack
    object,        \* connection.object[0 .. objects-1]
    Objects,       \* the red-black tree Objects: indices into object
    Local_Files,   \* red-black tree Local_Files: path -> [mode, sha]
    Remote_Files,  \* red-black tree Remote_Files: path -> [mode, sha]
    net,           \* requests sent so far, in order
    writes,        \* file system changes made so far, in order
    copy,          \* apply_deltas at a copy: delta, position, offset, length
    conn           \* process_command and fetch_pack at the bytes of a reply

vars == <<pc, exit_code, exit_at, opt, clone, have, want, agent, disk, target_exists,
          manifest_old, manifest_new, pack_file, remote, response, object,
          Objects, Local_Files, Remote_Files, net, writes, copy, conn>>

(***************************************************************************)
(* Bounds of the model.                                                    *)
(***************************************************************************)
\* number of delta entries appended to a generated pack
MaxDeltas == 2

\* the longest read of a reply that is shorter than all that is left
MaxRead == 3

\* blocks of the response that a long reply may fill
MaxBlocks == 1

(***************************************************************************)
(* Program constants.                                                      *)
(***************************************************************************)
\* indices of types[] in calculate_object_sha = the pack's 3-bit type code
TYPE_COMMIT == 1
TYPE_TREE == 2
TYPE_BLOB == 3
TYPE_OFS_DELTA == 6
TYPE_REF_DELTA == 7
\* the pack version unpack_objects accepts
PACK_VERSION == 2
\* st_mode values (octal 040000, 0100644, 0120000)
S_IFDIR == 16384
S_IFREG644 == 33188
S_IFLNK == 40960
\* the directory entry name ".git", as a name code
DOT_GIT == 46
\* the leading "tree " of a commit payload, as one code
TREE_WORD == 116
\* position of the first entry of a pack: "PACK", version, object count
PACK_HEADER_SIZE == 12
\* bytes of a raw SHA-1 (ref-delta base, pack trailer)
SHA_SIZE == 20

NoSha == <<>>

Last(s) == s[Len(s)]

(***************************************************************************)
(* calculate_object_sha: SHA-1 over "<type> <size>\0" followed by the      *)
(* buffer.                                                                 *)
(***************************************************************************)
calculate_object_sha(buffer, type) ==
    <<IF type = 5 THEN 0 ELSE type, Len(buffer)>> \o buffer

(***************************************************************************)
(* The object store: connection.object / connection.objects and the        *)
(* Objects tree.  A store value is [object, Objects]; C indices are        *)
(* 0-based, so object number i is object[i + 1].                           *)
(***************************************************************************)
EmptyStore == [object |-> <<>>, Objects |-> {}]

Obj(st, i) == st.object[i + 1]

\* RB_FIND(Tree_Objects, &Objects, &find): the index of the node, or -1
RB_FIND_Objects(st, sha) ==
    IF \E i \in st.Objects : Obj(st, i).sha = sha
    THEN CHOOSE i \in st.Objects : Obj(st, i).sha = sha
    ELSE -1

\* store_object without the RB_FIND of line 1054
store_object_without_lookup(st, type, buffer, pack_offset, index_delta, ref_delta_sha) ==
    [object |-> Append(st.object,
                       [index |-> Len(st.object), type |-> type,
                        sha |-> calculate_object_sha(buffer, type),
                        pack_offset |-> pack_offset,
                        index_delta |-> index_delta,
                        ref_delta_sha |-> ref_delta_sha,
                        buffer |-> buffer]),
     Objects |-> IF type < 6 THEN st.Objects \cup {Len(st.object)}
                             ELSE st.Objects]

\* store_object without the "type < 6" test of line 1077
store_object_indexing_deltas(st, type, buffer, pack_offset, index_delta, ref_delta_sha) ==
    LET sha == calculate_object_sha(buffer, type)
        node == [index |-> Len(st.object), type |-> type, sha |-> sha,
                 pack_offset |-> pack_offset, index_delta |-> index_delta,
                 ref_delta_sha |-> ref_delta_sha, buffer |-> buffer]
    IN  IF RB_FIND_Objects(st, sha) # -1
        THEN st
        ELSE [object |-> Append(st.object, node),
              Objects |-> st.Objects \cup {Len(st.object)}]

store_object(st, type, buffer, pack_offset, index_delta, ref_delta_sha) ==
    LET sha == calculate_object_sha(buffer, type)
        node == [index |-> Len(st.object), type |-> type, sha |-> sha,
                 pack_offset |-> pack_offset, index_delta |-> index_delta,
                 ref_delta_sha |-> ref_delta_sha, buffer |-> buffer]
    IN  IF RB_FIND_Objects(st, sha) # -1
        THEN st
        ELSE [object |-> Append(st.object, node),
              Objects |-> IF type < 6 THEN st.Objects \cup {Len(st.object)}
                                      ELSE st.Objects]

(***************************************************************************)
(* A pack: [version, count, entries, trailer].  An entry is                *)
(* [type, size, ofs, ref, data, zlen]: the type code and the declared size *)
(* of its header, the offset bytes of an ofs-delta, the raw base hash of a *)
(* ref-delta, the bytes its zlib stream inflates to and the number of pack *)
(* bytes that stream occupies (inflate's total_in).  The trailer is the    *)
(* SHA-1 the sender put after the entries.                                 *)
(***************************************************************************)
\* bytes of the entry header's type/size field (do-while of lines 1137-1142)
SizeBytes(size) == IF size < 16 THEN 1 ELSE IF size < 2048 THEN 2 ELSE 3

EntryLen(e) ==
    SizeBytes(e.size)
    + (IF e.type = TYPE_OFS_DELTA THEN Len(e.ofs) ELSE 0)
    + (IF e.type = TYPE_REF_DELTA THEN SHA_SIZE ELSE 0)
    + e.zlen

RECURSIVE EntryOffset(_, _)
\* position of the first header byte of entry k (1-based) in the pack
EntryOffset(entries, k) ==
    IF k = 1 THEN PACK_HEADER_SIZE
    ELSE EntryOffset(entries, k - 1) + EntryLen(entries[k - 1])

\* position just past the last entry
EndOffset(entries) ==
    IF entries = <<>> THEN PACK_HEADER_SIZE
    ELSE EntryOffset(entries, Len(entries)) + EntryLen(Last(entries))

\* the bytes SHA1() runs over in fetch_pack: everything before the trailer
PackBody(p) ==
    [magic |-> p.magic, version |-> p.version, count |-> p.count,
     entries |-> p.entries]

\* fetch_pack without the memcmp of line 1024
pack_checksum_unchecked(p) == TRUE

\* the checksum comparison of fetch_pack
pack_checksum_matches(p) == p.trailer = PackBody(p)

RECURSIVE lookup_offset(_, _, _)
RECURSIVE lookup_offset_without_bias(_, _, _)
\* a decoder that leaves out the "+ 1" of every byte
lookup_offset_without_bias(bytes, i, acc) ==
    LET v == acc * 128 + (bytes[i] % 128)
    IN  IF bytes[i] >= 128 /\ i < Len(bytes)
        THEN lookup_offset_without_bias(bytes, i + 1, v)
        ELSE v

\* do lookup_offset = (lookup_offset << 7) + (byte & 0x7F) + 1;
\* while (byte & 0x80);
lookup_offset(bytes, i, acc) ==
    LET v == acc * 128 + (bytes[i] % 128) + 1
    IN  IF bytes[i] >= 128 /\ i < Len(bytes)
        THEN lookup_offset(bytes, i + 1, v)
        ELSE v

\* The index search of an ofs-delta: index_delta starts at
\* connection->objects, "while (--index_delta > 0) if (match) break;".
\* 0 is the error value; -1 results when the store is empty.
ofs_delta_index(st, pack_offset, lookup) ==
    LET n == Len(st.object)
        hits == {i \in 1..(n - 1) :
                    pack_offset - lookup + 1 = Obj(st, i).pack_offset}
    IN  IF hits # {} THEN CHOOSE i \in hits : \A j \in hits : j <= i
        ELSE IF n = 0 THEN -1 ELSE 0

RECURSIVE unpack_entries(_, _, _, _)
\* the while loop of unpack_objects from entry k on, total_objects left
unpack_entries(st, entries, k, total_objects) ==
    IF k > Len(entries) \/ total_objects <= 0
    THEN [ok |-> TRUE, st |-> st]
    ELSE LET e == entries[k]
             pack_offset == EntryOffset(entries, k)
             index_delta ==
                 IF e.type = TYPE_OFS_DELTA
                 THEN ofs_delta_index(st, pack_offset,
                                      lookup_offset(e.ofs, 1, 0))
                 ELSE 0
         IN  IF e.type = TYPE_OFS_DELTA /\ index_delta = 0
             THEN [ok |-> FALSE, st |-> st]
             ELSE unpack_entries(
                      store_object(st, e.type, e.data, pack_offset,
                                   index_delta,
                                   IF e.type = TYPE_REF_DELTA
                                   THEN e.ref ELSE NoSha),
                      entries, k + 1, total_objects - 1)

\* what bytes of a trailer may decode to: a header byte of some type and
\* a zlib stream that inflate gives up on after its two header bytes; an
\* ofs-delta has an offset byte before it, a ref-delta SHA_SIZE bytes
StrayEntries ==
    {[type |-> t, lookup |-> 1, ref |-> NoSha, data |-> <<>>, used |-> 3] :
        t \in {0, TYPE_COMMIT, TYPE_BLOB}}
    \cup {[type |-> TYPE_OFS_DELTA, lookup |-> 1, ref |-> NoSha,
           data |-> <<>>, used |-> 4],
          [type |-> TYPE_REF_DELTA, lookup |-> 0, ref |-> <<255>>,
           data |-> <<>>, used |-> 3 + SHA_SIZE]}

RECURSIVE Used(_, _)
Used(strays, n) == IF n = 0 THEN 0 ELSE Used(strays, n - 1) + strays[n].used

\* the entries decoded from the trailer when left objects are still to
\* come: one after the other while the position is inside the trailer
Strays(left) ==
    IF left <= 0 THEN {<<>>}
    ELSE {s \in UNION {[1..n -> StrayEntries] : n \in 1..left} :
             /\ Used(s, Len(s) - 1) < SHA_SIZE
             /\ Len(s) = left \/ Used(s, Len(s)) >= SHA_SIZE}

RECURSIVE unpack_trailer(_, _, _, _)
\* the same loop once the entries are used up and objects are still to
\* come: position is below response_size for the SHA_SIZE bytes of the
\* trailer, so these are decoded as entries; strays[j] is what the bytes
\* at position decode to
unpack_trailer(st, position, strays, j) ==
    IF j > Len(strays) THEN [ok |-> TRUE, st |-> st]
    ELSE IF /\ strays[j].type = TYPE_OFS_DELTA
            /\ ofs_delta_index(st, position, strays[j].lookup) = 0
    THEN [ok |-> FALSE, st |-> st]
    ELSE unpack_trailer(
             store_object(st, strays[j].type, strays[j].data, position,
                          IF strays[j].type = TYPE_OFS_DELTA
                          THEN ofs_delta_index(st, position,
                                               strays[j].lookup)
                          ELSE 0,
                          IF strays[j].type = TYPE_REF_DELTA
                          THEN strays[j].ref ELSE NoSha),
             position + strays[j].used, strays, j + 1)

\* the entries are used up while the loop goes on
trailer_is_next(p, r) == r.ok /\ p.count > Len(p.entries)

\* unpack_objects: version check, object count, then the entries
unpack_objects(st, p, strays) ==
    IF p.version # PACK_VERSION
    THEN [ok |-> FALSE, st |-> st]
    ELSE IF trailer_is_next(p, unpack_entries(st, p.entries, 1, p.count))
    THEN unpack_trailer(unpack_entries(st, p.entries, 1, p.count).st,
                        EndOffset(p.entries), strays, 1)
    ELSE unpack_entries(st, p.entries, 1, p.count)

(***************************************************************************)
(* Delta decoding.  Positions are 0-based as in the C code.  A read past   *)
(* the end of a buffer is undefined behaviour; it yields the byte g, which *)
(* the calling action chooses.  When the calling action chooses FAULT, a    *)
(* memcpy whose source runs past its buffer stops the process instead, and *)
(* every other stray read yields 0.                                        *)
(***************************************************************************)
FAULT == -1

Stray(g) == IF g = FAULT THEN 0 ELSE g

Byte(buf, pos, g) ==
    IF pos >= 0 /\ pos < Len(buf) THEN buf[pos + 1] ELSE Stray(g)

RECURSIVE uvli_loop(_, _, _, _, _)
uvli_loop(data, position, count, result, g) ==
    LET b == Byte(data, position, g)
        r == result + (b % 128) * (2 ^ (7 * count))
    IN  IF b >= 128
        THEN uvli_loop(data, position + 1, count + 1, r, g)
        ELSE [value |-> r, position |-> position + 1]

unpack_variable_length_integer(data, position, g) ==
    uvli_loop(data, position, 0, 0, g)

BitSet(bits, m) == (bits \div (2 ^ m)) % 2 = 1

\* number of set bits of the 4-bit field below bit m
BitsBelow(bits, m) == Cardinality({j \in 0..3 : j < m /\ BitSet(bits, j)})

\* the byte that lands at byte position m of the result
DeltaIntegerByte(data, position, bits, m, g) ==
    IF BitSet(bits, m)
    THEN Byte(data, position + BitsBelow(bits, m), g) * (256 ^ m)
    ELSE 0

\* the bytes of the stream given to the set bits from the highest down
unpack_delta_integer_high_first(data, position, bits, g) ==
    [value |-> (IF BitSet(bits, 0)
                  THEN Byte(data, position + BitsBelow(bits, 4) - 1, g)
                  ELSE 0)
               + (IF BitSet(bits, 1)
                  THEN Byte(data, position + BitsBelow(bits, 4)
                                     - BitsBelow(bits, 2), g) * 256
                  ELSE 0)
               + (IF BitSet(bits, 2)
                  THEN Byte(data, position + BitsBelow(bits, 4)
                                     - BitsBelow(bits, 3), g) * 65536
                  ELSE 0)
               + (IF BitSet(bits, 3) THEN Byte(data, position, g) * (256 ^ 3)
                  ELSE 0),
     position |-> position + BitsBelow(bits, 4)]

unpack_delta_integer(data, position, bits, g) ==
    [value |-> DeltaIntegerByte(data, position, bits, 0, g)
               + DeltaIntegerByte(data, position, bits, 1, g)
               + DeltaIntegerByte(data, position, bits, 2, g)
               + DeltaIntegerByte(data, position, bits, 3, g),
     position |-> position + BitsBelow(bits, 4)]

\* memcpy(layer_buffer + new_position, start, length) with start in src
CopyInto(layer, new_position, src, offset, length, g) ==
    [i \in 1..Len(layer) |->
        IF i > new_position /\ i <= new_position + length
        THEN Byte(src, offset + (i - new_position) - 1, g)
        ELSE layer[i]]

RECURSIVE delta_instructions(_, _, _, _, _, _, _)

\* lines 1351-1355: the overflow test, the memcpy from start = src + offset
\* into the layer buffer, and the next turn of the loop at position next
delta_emit(delta, merge, layer, new_position, new_file_size, g, src, offset, length, next) ==
    IF new_position + length > new_file_size
    THEN [ok |-> FALSE, fault |-> FALSE, layer |-> layer]
    ELSE IF g = FAULT /\ offset + length > Len(src)
    THEN [ok |-> FALSE, fault |-> TRUE, layer |-> layer]
    ELSE delta_instructions(
             delta, next, merge,
             CopyInto(layer, new_position, src, offset, length, g),
             new_position + length, new_file_size, g)

\* lines 1342-1343: if (length == 0) length = 65536
copy_length(value) == IF value = 0 THEN 65536 ELSE value

\* lines 1340-1343: a copy whose length field decoded to len
delta_copy_length(delta, merge, layer, new_position, new_file_size, g, offset, len) ==
    delta_emit(delta, merge, layer, new_position, new_file_size, g,
               merge, offset, copy_length(len.value), len.position)

\* lines 1334-1340: a copy whose offset field decoded to off
delta_copy(delta, merge, layer, new_position, new_file_size, g, instruction, off) ==
    delta_copy_length(
        delta, merge, layer, new_position, new_file_size, g, off.value,
        unpack_delta_integer(delta, off.position,
                             (instruction \div 16) % 8, g))

\* the while (position < delta->data_size) loop of apply_deltas
delta_instructions(delta, position, merge, layer, new_position, new_file_size, g) ==
    IF position >= Len(delta)
    THEN [ok |-> TRUE, fault |-> FALSE, layer |-> layer]
    ELSE IF delta[position + 1] >= 128
    THEN delta_copy(
             delta, merge, layer, new_position, new_file_size, g,
             delta[position + 1],
             unpack_delta_integer(delta, position + 1,
                                  delta[position + 1] % 16, g))
    ELSE delta_emit(delta, merge, layer, new_position, new_file_size, g,
                    delta, position + 1, delta[position + 1],
                    position + 1 + delta[position + 1])

\* realloc to at least n bytes; the added bytes are indeterminate
Grow(buf, n, g) ==
    IF n > Len(buf)
    THEN buf \o [i \in 1..(n - Len(buf)) |-> Stray(g)]
    ELSE buf

\* memcpy(merge_buffer, layer_buffer, new_file_size)
MergeLayer(merge, layer, n) ==
    [i \in 1..Len(merge) |-> IF i <= n THEN layer[i] ELSE merge[i]]

\* lines 1358-1369, after the instruction loop returned run
apply_finish(bufs, n, g, run) ==
    [ok |-> run.ok, fault |-> run.fault, layer |-> run.layer,
     new_file_size |-> n,
     merge |-> MergeLayer(Grow(bufs.merge, n, g), run.layer, n)]

\* lines 1320-1356, once new_file_size is known
apply_sized(bufs, delta, g, new_file_size) ==
    apply_finish(
        bufs, new_file_size.value, g,
        delta_instructions(delta, new_file_size.position, bufs.merge,
                           Grow(bufs.layer, new_file_size.value, g),
                           0, new_file_size.value, g))

\* One iteration of "for (x = delta_count - 1; ...)": applies delta to
\* merge.  bufs is [merge, layer, new_file_size].
apply_one_delta(bufs, delta, g) ==
    apply_sized(
        bufs, delta, g,
        unpack_variable_length_integer(
            delta, unpack_variable_length_integer(delta, 0, g).position, g))

RECURSIVE delta_chain(_, _, _)
\* "while (delta->type == 6)": the indices of the ofs-deltas walked, and
\* the index of the object the walk ends at (-1: outside the array)
delta_chain(st, idx, deltas) ==
    IF idx < 0 \/ idx >= Len(st.object)
    THEN [deltas |-> deltas, end |-> -1]
    ELSE IF Obj(st, idx).type = TYPE_OFS_DELTA
         THEN delta_chain(st, Obj(st, idx).index_delta,
                          Append(deltas, Obj(st, idx).index))
         ELSE [deltas |-> deltas, end |-> idx]

RECURSIVE apply_chain(_, _, _, _, _)

apply_chain_next(st, deltas, x, g, r) ==
    IF ~r.ok THEN r
    ELSE apply_chain(st, deltas, x - 1,
                     [merge |-> r.merge, layer |-> r.layer,
                      new_file_size |-> r.new_file_size], g)

\* applies deltas[x], deltas[x - 1], ... deltas[1] (x is 1-based here)
apply_chain(st, deltas, x, bufs, g) ==
    IF x < 1 THEN bufs @@ [ok |-> TRUE, fault |-> FALSE]
    ELSE apply_chain_next(
             st, deltas, x, g,
             apply_one_delta(bufs, Obj(st, deltas[x]).buffer, g))

RECURSIVE apply_deltas_from(_, _, _, _, _)

\* line 1374: the completed object is stored and the loop goes on
apply_store(st, o, g, base, r) ==
    IF ~r.ok THEN [ok |-> FALSE, fault |-> r.fault, st |-> st]
    ELSE apply_deltas_from(
             store_object(st, Obj(st, base).type,
                          SubSeq(r.merge, 1, r.new_file_size), 0, 0, NoSha),
             o + 1, r.layer, r.new_file_size, g)

\* lines 1300-1370: the base lookup and the merge of the chain's deltas
apply_to_base(st, o, layer, new_file_size, g, deltas, base) ==
    IF base = -1 THEN [ok |-> FALSE, fault |-> FALSE, st |-> st]
    ELSE apply_store(
             st, o, g, base,
             apply_chain(st, deltas, Len(deltas),
                         [merge |-> Obj(st, base).buffer, layer |-> layer,
                          new_file_size |-> new_file_size], g))

\* the object RB_FIND returns for the end of the chain: the lookup key is
\* that object's own sha
chain_base(st, chain) ==
    IF chain.end = -1 THEN -1
    ELSE RB_FIND_Objects(st, Obj(st, chain.end).sha)

apply_chain_of(st, o, layer, new_file_size, g, chain) ==
    apply_to_base(st, o, layer, new_file_size, g, chain.deltas,
                  chain_base(st, chain))

\* the for (o = 0; o < connection->objects; o++) loop from o on; layer and
\* new_file_size are the locals that survive from one object to the next
apply_deltas_from(st, o, layer, new_file_size, g) ==
    IF o >= Len(st.object) THEN [ok |-> TRUE, fault |-> FALSE, st |-> st]
    ELSE IF Obj(st, o).type < 6
    THEN apply_deltas_from(st, o + 1, layer, new_file_size, g)
    ELSE apply_chain_of(st, o, layer, new_file_size, g,
                        delta_chain(st, o, <<>>))

apply_deltas(st, g) == apply_deltas_from(st, 0, <<>>, 0, g)

(***************************************************************************)
(* Trees, commits and the worktree.  A path is the sequence of names below *)
(* the target directory; <<>> is the target directory itself.  A tree      *)
(* payload is a sequence of items <mode, name, n, sha[1..n]>; a commit     *)
(* payload is <TREE_WORD, n, sha[1..n]>.                                    *)
(***************************************************************************)
NoFile == [kind |-> "none", mode |-> 0, data |-> <<>>]

S_ISDIR(mode) == (mode \div 4096) * 4096 = S_IFDIR
S_ISLNK(mode) == (mode \div 4096) * 4096 = S_IFLNK

extract_tree_item(buf, pos) ==
    [mode |-> buf[pos + 1], name |-> buf[pos + 2],
     sha |-> SubSeq(buf, pos + 4, pos + 3 + buf[pos + 3]),
     next |-> pos + 3 + buf[pos + 3]]

Children(d, base) ==
    {p \in DOMAIN d : /\ Len(p) = Len(base) + 1
                      /\ SubSeq(p, 1, Len(base)) = base
                      /\ d[p].kind # "none"}

\* NULL (NoSha) for a symbolic link
calculate_file_sha(f) ==
    IF f.kind = "link" THEN NoSha
    ELSE calculate_object_sha(f.data, TYPE_BLOB)

RECURSIVE find_local_tree(_, _)
\* git: exit(EXIT_FAILURE) was reached; files: the paths put in Local_Files
RECURSIVE find_local_tree_top_level_only(_, _)
\* a scan that tests for ".git" in the target directory only
find_local_tree_top_level_only(d, base) ==
    LET kids == Children(d, base)
        subs == {p \in kids : d[p].kind = "dir" /\ Last(p) # DOT_GIT}
    IN  [git |-> base = <<>> /\ \E p \in kids : Last(p) = DOT_GIT,
         files |-> {p \in kids : d[p].kind # "dir" /\ Last(p) # DOT_GIT}
                   \cup UNION {find_local_tree_top_level_only(d, p).files :
                                  p \in subs}]

find_local_tree(d, base) ==
    LET kids == Children(d, base)
        subs == {p \in kids : d[p].kind = "dir" /\ Last(p) # DOT_GIT}
    IN  [git |-> \/ \E p \in kids : Last(p) = DOT_GIT
                 \/ \E p \in subs : find_local_tree(d, p).git,
         files |-> {p \in kids : d[p].kind # "dir"}
                   \cup UNION {find_local_tree(d, p).files : p \in subs}]

\* errors == 0 at the end of check_local_tree
\* a check_local_tree that reports without exiting
check_local_tree_warning_only(remote_files, local_files) == TRUE

check_local_tree(remote_files, local_files) ==
    \A p \in DOMAIN remote_files :
        /\ p \in DOMAIN local_files
        /\ local_files[p].sha = remote_files[p].sha

\* RB_INSERT(Tree_Remote_Files, ...): an existing key is left as it is
RB_INSERT_Files(tree, path, node) ==
    IF path \in DOMAIN tree THEN tree ELSE (path :> node) @@ tree

\* a file that is rewritten whatever the scan found
local_file_always_changed(Local, sha, full_path) == FALSE

\* line 1463, "If the local file hasn't changed, skip it": the scan found
\* the path and its hash is the object's
local_file_unchanged(Local, sha, full_path) ==
    full_path \in DOMAIN Local /\ sha = Local[full_path].sha

\* a writer that tests for the unchanged file before it looks at the store
save_decision_skip_first(found_object, unchanged) ==
    IF unchanged THEN "skip"
    ELSE IF found_object = -1 THEN "error" ELSE "save"

\* lines 1458-1464: the errc for an object that is not in the store, then
\* the skip of an unchanged file
save_decision(found_object, unchanged) ==
    IF found_object = -1 THEN "error"
    ELSE IF unchanged THEN "skip" ELSE "save"

\* The non-directory branch of save_tree for one item.  s is
\* [ok, disk, target, Remote, Local, writes].  The object found has the
\* hash it was looked up by, item.sha.
save_file(s, st, item, full_path) ==
    LET found_object == RB_FIND_Objects(st, item.sha)
        found_file == full_path \in DOMAIN s.Local
        here == IF full_path \in DOMAIN s.disk
                THEN s.disk[full_path] ELSE NoFile
        decision == save_decision(
                        found_object,
                        local_file_unchanged(s.Local, item.sha, full_path))
    IN  IF decision = "error" THEN [s EXCEPT !.ok = FALSE]
        ELSE IF decision = "skip" THEN s
        ELSE IF S_ISLNK(item.mode)
        THEN IF here.kind # "none" THEN [s EXCEPT !.ok = FALSE]
             ELSE [s EXCEPT
                     !.disk = (full_path :>
                                  [kind |-> "link", mode |-> S_IFLNK,
                                   data |-> Obj(st, found_object).buffer])
                              @@ s.disk,
                     !.writes = Append(s.writes,
                                  [op |-> "symlink", path |-> full_path])]
        ELSE IF here.kind = "dir" THEN [s EXCEPT !.ok = FALSE]
        ELSE [s EXCEPT
                !.disk = IF here.kind = "link" THEN s.disk
                         ELSE (full_path :>
                                  [kind |-> "file", mode |-> item.mode,
                                   data |-> Obj(st, found_object).buffer])
                              @@ s.disk,
                !.writes = Append(s.writes,
                                  [op |-> "write", path |-> full_path]),
                !.Remote = IF found_file THEN s.Remote
                           ELSE RB_INSERT_Files(
                                    s.Remote, full_path,
                                    [mode |-> item.mode,
                                     sha |-> Obj(st, found_object).sha]),
                !.Local = IF found_file
                          THEN [s.Local EXCEPT ![full_path] =
                                   [mode |-> item.mode,
                                    sha |-> Obj(st, found_object).sha]]
                          ELSE s.Local]

\* mkdir(base_path, 0755), EEXIST accepted
make_directory(s, base_path) ==
    IF base_path = <<>>
    THEN IF s.target THEN s
         ELSE [s EXCEPT !.target = TRUE,
                        !.writes = Append(s.writes,
                                     [op |-> "mkdir", path |-> base_path])]
    ELSE IF base_path \in DOMAIN s.disk /\ s.disk[base_path].kind # "none"
    THEN s
    ELSE [s EXCEPT !.disk = (base_path :>
                               [kind |-> "dir", mode |-> S_IFDIR,
                                data |-> <<>>]) @@ s.disk,
                   !.writes = Append(s.writes,
                                [op |-> "mkdir", path |-> base_path])]

RECURSIVE save_tree(_, _, _, _)
RECURSIVE save_items(_, _, _, _, _)

save_items(s, st, tree_buffer, pos, base_path) ==
    IF ~s.ok \/ pos >= Len(tree_buffer) THEN s
    ELSE LET item == extract_tree_item(tree_buffer, pos)
             full_path == Append(base_path, item.name)
         IN  save_items(
                 IF S_ISDIR(item.mode)
                 THEN save_tree(s, st, item.sha, full_path)
                 ELSE save_file(s, st, item, full_path),
                 st, tree_buffer, item.next, base_path)

save_tree(s, st, sha, base_path) ==
    LET s1 == make_directory(s, base_path)
        tree == RB_FIND_Objects(st, sha)
    IN  IF tree = -1 THEN [s1 EXCEPT !.ok = FALSE]
        ELSE save_items(s1, st, Obj(st, tree).buffer, 0, base_path)

NoManifest == [exists |-> FALSE, tip |-> NoSha, rows |-> <<>>]

(***************************************************************************)
(* The requests of initiate_clone and initiate_pull, and the GET of        *)
(* get_commit_details.                                                     *)
(***************************************************************************)
discovery_request ==
    [kind |-> "GET", thin |-> FALSE, deepen |-> FALSE,
     shallow |-> <<>>, wants |-> <<>>, haves |-> <<>>]

initiate_clone(w) ==
    [kind |-> "POST", thin |-> FALSE, deepen |-> FALSE,
     shallow |-> <<w>>, wants |-> <<w, w>>, haves |-> <<>>]

initiate_pull(w, h) ==
    [kind |-> "POST", thin |-> TRUE, deepen |-> TRUE,
     shallow |-> <<w, h>>, wants |-> <<w>>, haves |-> <<h>>]

\* a fetch_pack that always clones
fetch_request_always_clone(manifest_exists, cl, w, h) == initiate_clone(w)

\* a fetch_pack that chooses by the clone flag alone
fetch_request_by_flag_only(manifest_exists, cl, w, h) ==
    IF cl THEN initiate_clone(w) ELSE initiate_pull(w, h)

\* the request fetch_pack sends when no pack was loaded from a file
fetch_request(manifest_exists, cl, w, h) ==
    IF ~manifest_exists \/ cl THEN initiate_clone(w) ELSE initiate_pull(w, h)

(***************************************************************************)
(* The steps of main.                                                      *)
(***************************************************************************)
Exit(code) == pc' = "exit" /\ exit_code' = code /\ exit_at' = pc

\* bytes an out-of-bounds read may return
GarbageBytes == {0, 90}

\* main, lines 1781-1787: clone is forced when the target is missing, then
\* find_local_tree scans the target.  The work directory exists in every
\* world of this model, so the mkdir of line 1784 changes nothing.
Scan ==
    /\ pc = "start"
    /\ clone' = (opt.clone \/ ~target_exists)
    /\ LET r == find_local_tree(disk, <<>>)
       IN  IF r.git
           THEN Exit(1) /\ UNCHANGED Local_Files
           ELSE IF \E p \in r.files : disk[p].kind = "link"
           THEN Exit(139) /\ UNCHANGED Local_Files
           ELSE /\ Local_Files' =
                      [p \in r.files |->
                          [mode |-> disk[p].mode,
                           sha |-> calculate_file_sha(disk[p])]]
                /\ pc' = "load"
                /\ UNCHANGED <<exit_code, exit_at>>
    /\ UNCHANGED <<opt, copy, conn, have, want, agent, disk, target_exists,
                   manifest_old, manifest_new, pack_file, remote, response,
                   object, Objects, Remote_Files, net, writes>>

\* main, lines 1802-1831: the manifest, when there is one, sets have and
\* fills Remote_Files
LoadManifest ==
    /\ pc = "load"
    /\ have' = IF manifest_old.exists THEN manifest_old.tip ELSE have
    /\ Remote_Files' = IF manifest_old.exists THEN manifest_old.rows
                       ELSE Remote_Files
    /\ pc' = "discover"
    /\ UNCHANGED <<exit_code, exit_at, opt, copy, conn, clone, want, agent, disk, target_exists,
                   manifest_old, manifest_new, pack_file, remote, response,
                   object, Objects, Local_Files, net, writes>>

\* main, lines 1854-1855, and get_commit_details
Discover ==
    /\ pc = "discover"
    /\ IF opt.use_pack /\ pack_file.exists
       THEN pc' = "fetch" /\ UNCHANGED <<exit_code, exit_at, want, agent, net>>
       ELSE /\ net' = Append(net, discovery_request)
            /\ agent' = TRUE
            /\ IF want # NoSha
               THEN pc' = "fetch" /\ UNCHANGED <<exit_code, exit_at, want>>
               ELSE IF remote.tip = NoSha
               THEN Exit(1) /\ UNCHANGED want
               ELSE want' = remote.tip /\ pc' = "fetch"
                    /\ UNCHANGED <<exit_code, exit_at>>
    /\ UNCHANGED <<opt, copy, conn, clone, have, disk, target_exists, manifest_old,
                   manifest_new, pack_file, remote, response, object,
                   Objects, Local_Files, Remote_Files, writes>>

\* fetch_pack
FetchPack ==
    /\ pc = "fetch"
    /\ LET loaded == opt.use_pack /\ pack_file.exists /\ ~pack_file.empty
           request == fetch_request(manifest_old.exists, clone, want, have)
           pack == IF loaded THEN pack_file.pack ELSE remote.reply
       IN  IF manifest_old.exists /\ ~clone
              /\ ~check_local_tree(Remote_Files, Local_Files)
           THEN Exit(1) /\ UNCHANGED <<net, response, pack_file, writes>>
           ELSE IF ~loaded /\ ~agent
           THEN /\ \E code \in {1, 139} : Exit(code)
                /\ UNCHANGED <<net, response, pack_file, writes>>
           ELSE /\ net' = IF loaded THEN net ELSE Append(net, request)
                /\ IF ~loaded /\ ~pack.magic
                   THEN Exit(1) /\ UNCHANGED <<response, pack_file, writes>>
                   ELSE IF ~pack_checksum_matches(pack)
                   THEN Exit(1) /\ UNCHANGED <<response, pack_file, writes>>
                   ELSE /\ response' = pack
                        /\ pack_file' =
                              IF opt.keep_pack
                              THEN [exists |-> TRUE, empty |-> FALSE,
                                    pack |-> pack]
                              ELSE pack_file
                        /\ writes' =
                              IF opt.keep_pack
                              THEN Append(writes, [op |-> "pack",
                                                   path |-> <<>>])
                              ELSE writes
                        /\ pc' = "unpack"
                        /\ UNCHANGED <<exit_code, exit_at>>
    /\ UNCHANGED <<opt, copy, conn, clone, have, want, agent, disk, target_exists,
                   manifest_old, manifest_new, remote, object, Objects,
                   Local_Files, Remote_Files>>

\* a main that resolves and saves whatever the object count
objects_to_save_unguarded(objects) == TRUE

\* main, line 1860: if (connection.objects > 0)
objects_to_save(objects) == objects > 0

\* unpack_objects, and the test "connection.objects > 0" of main
UnpackObjects ==
    /\ pc = "unpack"
    /\ \E strays \in Strays(response.count - Len(response.entries)) :
          LET r == unpack_objects([object |-> object, Objects |-> Objects],
                                  response, strays)
          IN  /\ object' = r.st.object
              /\ Objects' = r.st.Objects
              /\ IF ~r.ok THEN Exit(1)
                 ELSE /\ pc' = IF objects_to_save(Len(r.st.object))
                               THEN "apply" ELSE "wrapup"
                      /\ UNCHANGED <<exit_code, exit_at>>
    /\ UNCHANGED <<opt, copy, conn, clone, have, want, agent, disk, target_exists,
                   manifest_old, manifest_new, pack_file, remote, response,
                   Local_Files, Remote_Files, net, writes>>

\* line 1295 with index_delta = -1, the value unpack_objects leaves when
\* the pack starts with an ofs-delta: connection->object[-1] is read
reads_before_array(st) ==
    /\ Len(st.object) > 0
    /\ Obj(st, 0).type = TYPE_OFS_DELTA
    /\ Obj(st, 0).index_delta < 0

\* apply_deltas.  The read before the array ends the run, by errc when the
\* bytes found there name no object or by a fault; so does a memcpy that
\* faults.
ApplyDeltas ==
    /\ pc = "apply"
    /\ \E g \in GarbageBytes \cup {FAULT} :
          LET r == apply_deltas([object |-> object, Objects |-> Objects], g)
          IN  /\ object' = r.st.object
              /\ Objects' = r.st.Objects
              /\ IF reads_before_array([object |-> object,
                                        Objects |-> Objects])
                 THEN \E code \in {1, 139} : Exit(code)
                 ELSE IF ~r.ok THEN Exit(IF r.fault THEN 139 ELSE 1)
                 ELSE pc' = "save" /\ UNCHANGED <<exit_code, exit_at>>
    /\ UNCHANGED <<opt, copy, conn, clone, have, want, agent, disk, target_exists,
                   manifest_old, manifest_new, pack_file, remote, response,
                   Local_Files, Remote_Files, net, writes>>

\* save_objects: the commit, save_tree, then the staging manifest
SaveObjects ==
    /\ pc = "save"
    /\ LET st == [object |-> object, Objects |-> Objects]
           commit == RB_FIND_Objects(st, want)
           buffer == Obj(st, commit).buffer
           s0 == [ok |-> TRUE, disk |-> disk, target |-> target_exists,
                  Remote |-> Remote_Files, Local |-> Local_Files,
                  writes |-> writes]
           s == save_tree(s0, st, SubSeq(buffer, 3, 2 + buffer[2]), <<>>)
       IN  IF commit = -1
           THEN Exit(IF want = NoSha THEN 139 ELSE 1)
                /\ UNCHANGED <<disk, target_exists, manifest_new,
                               Local_Files, Remote_Files, writes>>
           ELSE IF Len(buffer) < 2 \/ buffer[1] # TREE_WORD
           THEN Exit(1)
                /\ UNCHANGED <<disk, target_exists, manifest_new,
                               Local_Files, Remote_Files, writes>>
           ELSE /\ disk' = s.disk
                /\ target_exists' = s.target
                /\ Local_Files' = s.Local
                /\ Remote_Files' = s.Remote
                /\ IF ~s.ok
                   THEN /\ Exit(1)
                        /\ writes' = s.writes
                        /\ UNCHANGED manifest_new
                   ELSE /\ manifest_new' = [exists |-> TRUE, tip |-> want,
                                            rows |-> s.Remote]
                        /\ writes' = Append(s.writes,
                                        [op |-> "staging", path |-> <<>>])
                        /\ pc' = "remove"
                        /\ UNCHANGED <<exit_code, exit_at>>
    /\ UNCHANGED <<opt, copy, conn, clone, have, want, agent, manifest_old, pack_file,
                   remote, response, object, Objects, net>>

\* main, line 1864: remove(connection.remote_file_old)
RemoveOld ==
    /\ pc = "remove"
    /\ manifest_old' = NoManifest
    /\ writes' = Append(writes, [op |-> "remove", path |-> <<>>])
    /\ pc' = "rename"
    /\ UNCHANGED <<exit_code, exit_at, opt, copy, conn, clone, have, want, agent, disk,
                   target_exists, manifest_new, pack_file, remote, response,
                   object, Objects, Local_Files, Remote_Files, net>>

\* main, lines 1866-1867: rename(remote_file_new, remote_file_old), which
\* the file system may refuse
RenameNew ==
    /\ pc = "rename"
    /\ \E renamed \in BOOLEAN :
          IF renamed
          THEN /\ manifest_old' = manifest_new
               /\ manifest_new' = NoManifest
               /\ writes' = Append(writes, [op |-> "rename", path |-> <<>>])
               /\ pc' = "wrapup"
               /\ UNCHANGED <<exit_code, exit_at>>
          ELSE Exit(1) /\ UNCHANGED <<manifest_old, manifest_new, writes>>
    /\ UNCHANGED <<opt, copy, conn, clone, have, want, agent, disk, target_exists,
                   pack_file, remote, response, object, Objects,
                   Local_Files, Remote_Files, net>>

\* main, lines 1870-1939: the trees and the object array are freed
WrapUp ==
    /\ pc = "wrapup"
    /\ object' = <<>>
    /\ Objects' = {}
    /\ Local_Files' = <<>>
    /\ Remote_Files' = <<>>
    /\ Exit(0)
    /\ UNCHANGED <<opt, copy, conn, clone, have, want, agent, disk, target_exists,
                   manifest_old, manifest_new, pack_file, remote, response,
                   net, writes>>

\* the user aborts by signalling the process
Interrupt ==
    /\ pc \notin {"exit", "killed"}
    /\ pc' = "killed"
    /\ exit_code' = 143
    /\ exit_at' = pc
    /\ UNCHANGED <<opt, copy, conn, clone, have, want, agent, disk, target_exists,
                   manifest_old, manifest_new, pack_file, remote, response,
                   object, Objects, Local_Files, Remote_Files, net, writes>>

(***************************************************************************)
(* The worlds a run starts in: what the server holds and sends, what is on *)
(* disk, and the command line.                                             *)
(***************************************************************************)
BlobOld == <<65, 65, 65, 65>>
BlobNew == <<66, 65, 65, 65>>
BlobMod == <<67>>

ShaBlob(b) == calculate_object_sha(b, TYPE_BLOB)
TreeItem(mode, name, sha) == <<mode, name, Len(sha)>> \o sha
TreeOf(blob) == TreeItem(S_IFREG644, 1, ShaBlob(blob))
CommitOf(tree) ==
    LET sha == calculate_object_sha(tree, TYPE_TREE)
    IN  <<TREE_WORD, Len(sha)>> \o sha
TipOf(blob) == calculate_object_sha(CommitOf(TreeOf(blob)), TYPE_COMMIT)
TipOld == TipOf(BlobOld)
TipNew == TipOf(BlobNew)

\* delta payloads: source size 4, target size 4, insert one byte, then
\* copy offset 1 length 3 (0x91, one offset byte, one length byte)
DeltaOldToNew == <<4, 4, 1, 66, 145, 1, 3>>
DeltaNewToOld == <<4, 4, 1, 65, 145, 1, 3>>

Entry(type, data) ==
    [type |-> type, size |-> Len(data), ofs |-> <<>>, ref |-> NoSha,
     data |-> data, zlen |-> Len(data) + 2]

\* the offset bytes a sender writes for distance d
EncodeOfs(d) ==
    IF d < 128 THEN <<d>>
    ELSE <<128 + ((d \div 128) - 1), d % 128>>

OfsEntry(data, d) ==
    [Entry(TYPE_OFS_DELTA, data) EXCEPT !.ofs = EncodeOfs(d)]
RefEntry(data, sha) ==
    [Entry(TYPE_REF_DELTA, data) EXCEPT !.ref = sha]

eCommitNew == Entry(TYPE_COMMIT, CommitOf(TreeOf(BlobNew)))
eTreeNew == Entry(TYPE_TREE, TreeOf(BlobNew))
eBlobNew == Entry(TYPE_BLOB, BlobNew)
eBlobOld == Entry(TYPE_BLOB, BlobOld)

\* the delta entries a sender may append to entries: an ofs-delta on each
\* earlier entry, an ofs-delta whose distance exceeds its own offset, and
\* a ref-delta on the old blob
DeltasAfter(entries) ==
    {OfsEntry(data, EndOffset(entries) - EntryOffset(entries, j)) :
        data \in {DeltaOldToNew, DeltaNewToOld}, j \in 1..Len(entries)}
    \cup {OfsEntry(DeltaOldToNew, EndOffset(entries) + 1),
          RefEntry(DeltaOldToNew, ShaBlob(BlobOld))}

RECURSIVE WithDeltas(_, _)
WithDeltas(entries, n) ==
    IF n = 0 THEN {entries}
    ELSE {entries} \cup
         UNION {WithDeltas(Append(entries, e), n - 1) :
                   e \in DeltasAfter(entries)}

Prefixes ==
    {<<>>,
     <<eCommitNew, eTreeNew, eBlobNew>>,
     <<eCommitNew, eTreeNew, eBlobOld>>,
     <<eBlobOld, eCommitNew, eTreeNew>>,
     <<eCommitNew, eTreeNew>>}

MakePack(entries) ==
    LET body == [magic |-> TRUE, version |-> PACK_VERSION,
                 count |-> Len(entries), entries |-> entries]
    IN  body @@ [trailer |-> body]

\* a response without the word PACK
NoPack == [MakePack(<<>>) EXCEPT !.magic = FALSE]
BadTrailer(p) == [p EXCEPT !.trailer.count = p.count + 1]
BadVersion(p) ==
    LET body == [magic |-> TRUE, version |-> 3, count |-> p.count,
                 entries |-> p.entries]
    IN  body @@ [trailer |-> body]

DeltaPacks == {MakePack(es) : es \in UNION {WithDeltas(p, MaxDeltas) :
                                               p \in Prefixes}}

FullPack == MakePack(<<eCommitNew, eTreeNew, eBlobNew>>)
OfsPack ==
    MakePack(<<eCommitNew, eTreeNew, eBlobOld,
               OfsEntry(DeltaOldToNew, EntryLen(eBlobOld))>>)
SessionPacks ==
    {MakePack(<<>>), FullPack, OfsPack, BadTrailer(FullPack),
     BadTrailer(MakePack(<<>>)), BadVersion(FullPack), NoPack}

File(data) == [kind |-> "file", mode |-> S_IFREG644, data |-> data]
Dir == [kind |-> "dir", mode |-> S_IFDIR, data |-> <<>>]

AllPaths == {<<1>>, <<2>>, <<2, 1>>, <<DOT_GIT>>, <<2, DOT_GIT>>}
EmptyDisk == [p \in AllPaths |-> NoFile]
DiskWith(fs) == fs @@ EmptyDisk

\* target directories that exist
Disks ==
    {EmptyDisk,
     DiskWith(<<1>> :> File(BlobOld)),
     DiskWith(<<1>> :> File(BlobNew)),
     DiskWith(<<1>> :> File(BlobMod)),
     DiskWith((<<1>> :> File(BlobOld)) @@ (<<2>> :> Dir)
              @@ (<<2, 1>> :> File(BlobOld))),
     DiskWith((<<1>> :> File(BlobOld)) @@ (<<DOT_GIT>> :> Dir)),
     DiskWith((<<1>> :> File(BlobOld)) @@ (<<2>> :> Dir)
              @@ (<<2, DOT_GIT>> :> File(BlobMod)))}

ManifestOf(blob) ==
    [exists |-> TRUE, tip |-> TipOf(blob),
     rows |-> (<<1>> :> [mode |-> S_IFREG644, sha |-> ShaBlob(blob)])]
Manifests == {NoManifest, ManifestOf(BlobOld), ManifestOf(BlobNew)}

NoPackFile == [exists |-> FALSE, empty |-> FALSE, pack |-> NoPack]
PackFiles ==
    {[exists |-> TRUE, empty |-> FALSE, pack |-> p] :
        p \in {FullPack, BadTrailer(FullPack)}}
    \cup {[exists |-> TRUE, empty |-> TRUE, pack |-> NoPack]}

\* no reply is being read
NoConn == [stream |-> <<>>, response |-> <<>>, response_blocks |-> 0,
           bytes_read |-> 0, total_bytes_read |-> 0, chunk_size |-> -1,
           bytes_expected |-> 0, marker_start |-> -1, data_start |-> -1,
           response_size |-> 0, pack_size |-> 0]

\* no copy instruction is being decoded
NoCopy == [delta |-> <<>>, position |-> 0, offset |-> 0, length |-> 0]

\* -c, -k, and -u with the want taken from the pack file's name.  verify
\* stands for a command line that asks for a verify session: the option
\* string "ch:ku:Vv:w:" has no such letter and the switch has no case for
\* what getopt returns then, so no step of main reads the field.
Options ==
    {[clone |-> c, use_pack |-> FALSE, keep_pack |-> k, want |-> NoSha,
      verify |-> FALSE] : c \in BOOLEAN, k \in BOOLEAN}
    \cup {[clone |-> c, use_pack |-> TRUE, keep_pack |-> FALSE,
           want |-> TipNew, verify |-> FALSE] : c \in BOOLEAN}
    \cup {[clone |-> c, use_pack |-> FALSE, keep_pack |-> FALSE,
           want |-> NoSha, verify |-> TRUE] : c \in BOOLEAN}

InitRun ==
    /\ pc = "start"
    /\ exit_code = -1
    /\ exit_at = ""
    /\ clone = opt.clone
    /\ have = NoSha
    /\ want = opt.want
    /\ agent = FALSE
    /\ manifest_new = NoManifest
    /\ response = NoPack
    /\ object = <<>>
    /\ Objects = {}
    /\ Local_Files = <<>>
    /\ Remote_Files = <<>>
    /\ net = <<>>
    /\ writes = <<>>
    /\ copy = NoCopy
    /\ conn = NoConn

\* sessions of every shape, against a server sending one of a few packs
InitSession ==
    /\ opt \in Options
    /\ target_exists \in BOOLEAN
    /\ disk \in (IF target_exists THEN Disks ELSE {EmptyDisk})
    /\ manifest_old \in Manifests
    /\ pack_file \in (IF opt.use_pack THEN PackFiles \cup {NoPackFile}
                      ELSE {NoPackFile})
    /\ remote \in [tip : {TipOld, TipNew, NoSha}, reply : SessionPacks]
    /\ InitRun

\* a pull or a clone over the old worktree, against a server sending any
\* of the generated packs
InitPacks ==
    /\ opt \in {o \in Options : ~o.use_pack /\ ~o.keep_pack /\ ~o.verify}
    /\ target_exists = TRUE
    /\ disk = DiskWith(<<1>> :> File(BlobOld))
    /\ manifest_old = ManifestOf(BlobOld)
    /\ pack_file = NoPackFile
    /\ remote \in [tip : {TipNew}, reply : DeltaPacks]
    /\ InitRun

Init == InitSession \/ InitPacks

\* a pack whose header declares n objects, with the checksum of its bytes
Declaring(entries, n) ==
    [MakePack(entries) EXCEPT !.count = n, !.trailer.count = n]

\* a blob entry whose header declares d bytes more than its stream holds
Resized(e, d) == [e EXCEPT !.size = @ + d]

\* packs with a sound checksum whose headers do not fit what follows: an
\* entry of another size than declared, more or fewer entries than
\* declared; and two packs without such a flaw
UnpackPacks ==
    {FullPack, OfsPack,
     MakePack(<<eCommitNew, eTreeNew, Resized(eBlobNew, 1)>>),
     MakePack(<<eCommitNew, eTreeNew, Resized(eBlobNew, -1)>>),
     Declaring(<<eCommitNew, eTreeNew, eBlobNew>>, 4),
     Declaring(<<eCommitNew, eTreeNew, eBlobNew>>, 2),
     Declaring(<<eCommitNew, eTreeNew>>, 3),
     Declaring(<<>>, 1)}

\* sessions of every shape, against a server sending one of these packs
InitUnpack ==
    /\ opt \in Options
    /\ target_exists \in BOOLEAN
    /\ disk \in (IF target_exists THEN Disks ELSE {EmptyDisk})
    /\ manifest_old \in Manifests
    /\ pack_file \in (IF opt.use_pack THEN PackFiles \cup {NoPackFile}
                      ELSE {NoPackFile})
    /\ remote \in [tip : {TipOld, TipNew, NoSha}, reply : UnpackPacks]
    /\ InitRun

\* offset bytes of one, two and three bytes
OfsSamples == {0, 1, 64, 127}
OfsBytes ==
    {<<a>> : a \in {8, 64, 127}}
    \cup {<<128 + a, b>> : a \in OfsSamples, b \in OfsSamples}
    \cup {<<128 + a, 128 + b, c>> :
             a \in OfsSamples, b \in OfsSamples, c \in OfsSamples}

\* the distance a sender encodes as bytes
DistanceOf(bytes) ==
    IF Len(bytes) = 1 THEN bytes[1]
    ELSE IF Len(bytes) = 2 THEN (bytes[1] - 127) * 128 + bytes[2]
    ELSE ((bytes[1] - 127) * 128 + (bytes[2] - 127)) * 128 + bytes[3]

\* commit, tree, the old blob in a zlib stream of zlen bytes, and an
\* ofs-delta with the given offset bytes right after it
OfsDistancePack(bytes, zlen) ==
    MakePack(<<eCommitNew, eTreeNew, [eBlobOld EXCEPT !.zlen = zlen],
               [Entry(TYPE_OFS_DELTA, DeltaOldToNew) EXCEPT !.ofs = bytes]>>)

\* a clone from a server whose pack has an ofs-delta that lies at its
\* encoded distance from the old blob, or one byte short or beyond
InitOfs ==
    /\ opt = [clone |-> FALSE, use_pack |-> FALSE, keep_pack |-> FALSE,
              want |-> NoSha, verify |-> FALSE]
    /\ target_exists = FALSE
    /\ disk = EmptyDisk
    /\ manifest_old = NoManifest
    /\ pack_file = NoPackFile
    /\ remote \in [tip : {TipNew},
                   reply : {OfsDistancePack(bytes, DistanceOf(bytes) - 1 + by) :
                               bytes \in OfsBytes, by \in {-1, 0, 1}}]
    /\ InitRun

\* instructions of a delta on the four-byte old blob: nothing, an insert
\* of one or two bytes, or a copy (0x91: one offset byte, one length byte)
MaxTarget == 5
MaxCopyOffset == 3
MaxCopyLength == 3
DeltaSteps ==
    {<<>>, <<1, 66>>, <<2, 66, 67>>}
    \cup {<<145, o, l>> : o \in 0..MaxCopyOffset, l \in 1..MaxCopyLength}

\* delta payloads: source size 4, target size t, two instructions
DeltaMenu ==
    {<<4, t>> \o a \o b :
        t \in 0..MaxTarget, a \in DeltaSteps, b \in DeltaSteps}

\* payloads of a second delta, on the result of the first
ChainMenu == {<<4, 4, 145, 0, 4>>, <<4, 2, 145, 3, 2>>}

\* commit, tree, the old blob, an ofs-delta on the blob and, for a chain,
\* an ofs-delta on that delta
DeltaMenuPacks ==
    LET head(d) == <<eCommitNew, eTreeNew, eBlobOld,
                     OfsEntry(d, EntryLen(eBlobOld))>>
    IN  {MakePack(head(d)) : d \in DeltaMenu}
        \cup {MakePack(Append(head(d), OfsEntry(c, EntryLen(Entry(TYPE_OFS_DELTA, d))))) :
                 d \in DeltaMenu, c \in ChainMenu}

\* a clone from a server whose pack holds deltas of the menu
InitDelta ==
    /\ opt = [clone |-> FALSE, use_pack |-> FALSE, keep_pack |-> FALSE,
              want |-> NoSha, verify |-> FALSE]
    /\ target_exists = FALSE
    /\ disk = EmptyDisk
    /\ manifest_old = NoManifest
    /\ pack_file = NoPackFile
    /\ remote \in [tip : {TipNew}, reply : DeltaMenuPacks]
    /\ InitRun

\* mode 160000 of a tree entry that names a commit of another repository
S_IFGITLINK == 57344

\* the payload of a blob that is the target of a symbolic link
BlobLink == <<49>>
Link(data) == [kind |-> "link", mode |-> S_IFLNK, data |-> data]

\* the hash of a commit that no pack of this model holds
GitlinkSha == calculate_object_sha(CommitOf(TreeOf(BlobMod)), TYPE_COMMIT)

\* root trees: file 1 alone, or with a link 3 or a gitlink 4 before it, or
\* with a directory 2 after it that holds the old file 1
SubTree == TreeOf(BlobOld)
TreeWithLink == TreeItem(S_IFLNK, 3, ShaBlob(BlobLink)) \o TreeOf(BlobNew)
TreeWithGitlink == TreeItem(S_IFGITLINK, 4, GitlinkSha) \o TreeOf(BlobNew)
TreeWithDir ==
    TreeOf(BlobNew)
    \o TreeItem(S_IFDIR, 2, calculate_object_sha(SubTree, TYPE_TREE))

\* a tip: its root tree and the entries of the other objects it names
TipTrees ==
    {[root |-> TreeOf(BlobNew), rest |-> <<eBlobNew>>],
     [root |-> TreeWithLink,
      rest |-> <<Entry(TYPE_BLOB, BlobLink), eBlobNew>>],
     [root |-> TreeWithGitlink, rest |-> <<eBlobNew>>],
     [root |-> TreeWithDir,
      rest |-> <<eBlobNew, Entry(TYPE_TREE, SubTree), eBlobOld>>]}

\* seq without its i-th element
Drop(seq, i) == SubSeq(seq, 1, i - 1) \o SubSeq(seq, i + 1, Len(seq))

\* the server of a tip: the complete pack, or the pack less one of the
\* objects below the root tree
TipPack(t, rest) ==
    [tip |-> calculate_object_sha(CommitOf(t.root), TYPE_COMMIT),
     reply |-> MakePack(<<Entry(TYPE_COMMIT, CommitOf(t.root)),
                          Entry(TYPE_TREE, t.root)>> \o rest)]

TipRemotes ==
    UNION {{TipPack(t, t.rest)}
           \cup {TipPack(t, Drop(t.rest, i)) : i \in 1..Len(t.rest)} :
              t \in TipTrees}

\* worktrees: with a file 5 the tip no longer has, with a link or a file at
\* the path of the link, with the directory 2
TreeDisks ==
    {EmptyDisk,
     DiskWith(<<1>> :> File(BlobOld)),
     DiskWith(<<1>> :> File(BlobNew)),
     DiskWith((<<1>> :> File(BlobOld)) @@ (<<5>> :> File(BlobOld))),
     DiskWith((<<1>> :> File(BlobNew)) @@ (<<3>> :> Link(BlobLink))),
     DiskWith((<<1>> :> File(BlobNew)) @@ (<<3>> :> File(BlobMod))),
     DiskWith((<<1>> :> File(BlobOld)) @@ (<<2>> :> Dir)
              @@ (<<2, 1>> :> File(BlobOld)))}

Row(blob) == [mode |-> S_IFREG644, sha |-> ShaBlob(blob)]
TreeManifests ==
    {NoManifest, ManifestOf(BlobOld), ManifestOf(BlobNew),
     [exists |-> TRUE, tip |-> TipOld,
      rows |-> (<<1>> :> Row(BlobOld)) @@ (<<5>> :> Row(BlobOld))],
     [exists |-> TRUE, tip |-> TipOld,
      rows |-> (<<1>> :> Row(BlobOld)) @@ (<<2, 1>> :> Row(BlobOld))]}

\* a clone or a pull of a tip whose tree has links, gitlinks and
\* directories, over worktrees and manifests of an earlier run
InitTree ==
    /\ opt \in {o \in Options : ~o.use_pack /\ ~o.keep_pack /\ ~o.verify}
    /\ target_exists \in BOOLEAN
    /\ disk \in (IF target_exists THEN TreeDisks ELSE {EmptyDisk})
    /\ manifest_old \in TreeManifests
    /\ pack_file = NoPackFile
    /\ remote \in TipRemotes
    /\ InitRun

(***************************************************************************)
(* The bytes of a reply.  process_command reads an HTTP response in        *)
(* chunked transfer encoding into connection->response; fetch_pack then    *)
(* removes the pkt-line framing.  Offsets into the response are 0-based as *)
(* in the C code, -1 stands for NULL, and the byte after the last is NUL.  *)
(***************************************************************************)
BUFFER_UNIT_SMALL == 4096
BUFFER_UNIT_LARGE == 1048576

At(buf, i) == IF i >= 0 /\ i < Len(buf) THEN buf[i + 1] ELSE 0

\* strnstr(buf + from, find, slen): the offset of the first occurrence of
\* find within slen bytes and before any NUL
strnstr(buf, from, find, slen) ==
    LET hits == {i \in from..(from + slen - Len(find)) :
                    /\ \A k \in 1..Len(find) : At(buf, i + k - 1) = find[k]
                    /\ \A j \in from..(i - 1) : At(buf, j) # 0}
    IN  IF hits = {} THEN -1 ELSE CHOOSE i \in hits : \A j \in hits : i <= j

\* strstr(buf + from, find)
strstr(buf, from, find) == strnstr(buf, from, find, Len(buf) - from)

HexValue(b) ==
    IF b \in 48..57 THEN b - 48
    ELSE IF b \in 97..102 THEN b - 87
    ELSE IF b \in 65..70 THEN b - 55
    ELSE -1

RECURSIVE strtol_digits(_, _, _)
strtol_digits(buf, i, acc) ==
    IF HexValue(At(buf, i)) < 0 THEN acc
    ELSE strtol_digits(buf, i + 1, acc * 16 + HexValue(At(buf, i)))

RECURSIVE strtol(_, _)
\* strtol(buf + i, NULL, 16) of text that has neither a sign nor a 0x
strtol(buf, i) ==
    IF At(buf, i) \in {9, 10, 11, 12, 13, 32} THEN strtol(buf, i + 1)
    ELSE strtol_digits(buf, i, 0)

\* lines 674-683: one more block when the bytes read do not fit
response_blocks_for(c, n) ==
    IF c.total_bytes_read + n > c.response_blocks * BUFFER_UNIT_LARGE
    THEN c.response_blocks + 1
    ELSE c.response_blocks

\* lines 664-689: n bytes are read and added to the response
received(c, n) ==
    [c EXCEPT !.stream = SubSeq(@, n + 1, Len(@)),
              !.response = @ \o SubSeq(c.stream, 1, n),
              !.bytes_read = n,
              !.total_bytes_read = @ + n,
              !.response_blocks = response_blocks_for(c, n)]

\* lines 721-734: the marker is taken out and the loop goes on
marker_removed(c, marker_end, size) ==
    [c EXCEPT !.response = SubSeq(@, 1, c.marker_start)
                           \o SubSeq(@, marker_end + 3, c.total_bytes_read),
              !.total_bytes_read = @ - (marker_end + 2 - c.marker_start),
              !.chunk_size = size,
              !.marker_start = IF size = 0 THEN @ ELSE @ + size,
              !.bytes_expected = IF size = 0 THEN @ ELSE @ + size]

RECURSIVE remove_markers(_)
\* lines 706-738: the loop that removes the chunk length markers
remove_marker_at(c, marker_end) ==
    IF marker_end = -1 THEN c
    ELSE IF strtol(c.response, c.marker_start) = 0
    THEN marker_removed(c, marker_end, 0)
    ELSE remove_markers(
             marker_removed(c, marker_end, strtol(c.response, c.marker_start)))

remove_markers(c) ==
    IF ~(c.total_bytes_read + c.chunk_size > c.bytes_expected) THEN c
    ELSE IF c.total_bytes_read - (c.marker_start + 2) < 0 THEN c
    ELSE remove_marker_at(
             c, strnstr(c.response, c.marker_start + 2, <<13, 10>>,
                        c.total_bytes_read - (c.marker_start + 2)))

\* lines 696-704: the boundary between the header and the data, at m
header_found(c, m) ==
    IF m = -1 THEN c
    ELSE remove_markers([c EXCEPT !.bytes_expected = m + 4,
                                  !.marker_start = m + 2,
                                  !.data_start = m + 2])

\* one turn of the while (chunk_size) loop after n bytes were read
process_read(c, n) ==
    IF c.chunk_size = -1
    THEN header_found(
             received(c, n),
             strnstr(received(c, n).response, 0, <<13, 10, 13, 10>>,
                     received(c, n).total_bytes_read))
    ELSE remove_markers(received(c, n))

\* lines 746-748: the header is removed
remove_header(c) ==
    [c EXCEPT !.response_size = c.total_bytes_read - c.data_start,
              !.response = SubSeq(@, c.data_start + 1, c.total_bytes_read)]

RECURSIVE remove_pkt_lines(_, _, _, _)
\* fetch_pack, lines 1005-1014: the loop over the pkt-lines from source
\* on.  A length below 5 makes the size of the memmove negative.
remove_pkt_lines(c, source, target, payload) ==
    IF strtol(c.response, source) = 0
    THEN [ok |-> TRUE, c |-> c, target |-> target, payload |-> payload]
    ELSE IF strtol(c.response, source) < 5
    THEN [ok |-> FALSE, c |-> c, target |-> target, payload |-> payload]
    ELSE remove_pkt_lines(
             [c EXCEPT !.response_size = @ - 5],
             source + strtol(c.response, source),
             target + strtol(c.response, source) - 5,
             payload \o [i \in 1..(strtol(c.response, source) - 5) |->
                            At(c.response, source + 5 + i - 1)])

\* lines 1016-1017, after the loop returned r: the payloads lie at the
\* start of the response, what follows them is what was there before
pkt_lines_removed(r) ==
    [r.c EXCEPT !.response = r.payload
                             \o SubSeq(@, r.target + 1, Len(@)),
                !.response_size = @ + 5,
                !.pack_size = r.c.response_size + 5 - SHA_SIZE]

\* lines 996-1003: pack_start lies 5 bytes before the word PACK at m
pack_found(c, m) ==
    remove_pkt_lines(
        [c EXCEPT !.response_size = @ - (m - 5 + 11),
                  !.response = SubSeq(@, 9, 12) \o SubSeq(@, 5, Len(@))],
        m - 5, 0, <<>>)

RECURSIVE WeightedSum(_, _)
WeightedSum(bytes, k) ==
    IF k = 0 THEN 0
    ELSE (WeightedSum(bytes, k - 1) * 3 + bytes[k] + k) % 65536

\* SHA1() of fetch_pack, line 1022: a digest of SHA_SIZE bytes that
\* depends on every byte and on the length
SHA1(bytes) ==
    [i \in 1..SHA_SIZE |-> (WeightedSum(bytes, Len(bytes)) + i) % 256]

\* the memcmp of line 1024 on the response of c
checksum_matches(c) ==
    SHA1(SubSeq(c.response, 1, c.pack_size))
        = [i \in 1..SHA_SIZE |-> At(c.response, c.pack_size + i - 1)]

HexDigit(d) == IF d < 10 THEN 48 + d ELSE 87 + d

RECURSIVE Hex(_)
Hex(n) ==
    IF n < 16 THEN <<HexDigit(n)>>
    ELSE Hex(n \div 16) \o <<HexDigit(n % 16)>>

\* a pkt-line on a band of the side-band: four hexadecimal digits for its
\* whole length, the band, the payload
PktLine(band, payload) ==
    <<48, 48>> \o (IF Len(payload) + 5 < 16 THEN <<48>> ELSE <<>>)
    \o Hex(Len(payload) + 5) \o <<band>> \o payload

\* a chunk of the transfer encoding: its size, CRLF, its bytes, CRLF
Chunk(data) == Hex(Len(data)) \o <<13, 10>> \o data \o <<13, 10>>

RECURSIVE Chunks(_, _)
ChunksFrom(body, cuts, first) ==
    Chunk(SubSeq(body, 1, first))
    \o Chunks(SubSeq(body, first + 1, Len(body)),
              {d - first : d \in cuts \ {first}})

\* body in chunks that end at the offsets in cuts and at its end
Chunks(body, cuts) ==
    IF cuts = {} THEN Chunk(body)
    ELSE ChunksFrom(body, cuts, CHOOSE c \in cuts : \A d \in cuts : c <= d)

\* a response: the header, a blank line, the chunks, the last chunk
HttpResponse(body, cuts) ==
    <<72, 13, 10, 13, 10>> \o Chunks(body, cuts) \o <<48, 13, 10, 13, 10>>

\* a pack of six bytes, two of them CR and LF, with its checksum
PackBytes == <<80, 65, 67, 75, 13, 10>> \o SHA1(<<80, 65, 67, 75, 13, 10>>)

\* what precedes the pack lines: "packfile\n", or NAK and a delimiter
\* before it
PackfileLine == <<48, 48, 48, 100, 112, 97, 99, 107, 102, 105, 108, 101, 10>>

ReplyPrefixes ==
    {PackfileLine,
     <<48, 48, 48, 56, 78, 65, 75, 10, 48, 48, 48, 49>> \o PackfileLine}

\* the lines of the packfile section: the pack on band 1 in two lines
\* split at a, possibly with a line of another band between them
PackLines ==
    {<<[band |-> 1, payload |-> SubSeq(PackBytes, 1, a)]>> \o between
     \o <<[band |-> 1, payload |-> SubSeq(PackBytes, a + 1, Len(PackBytes))]>> :
        a \in {2, 6},
        between \in {<<>>, <<[band |-> 2, payload |-> <<104, 105>>]>>,
                     <<[band |-> 3, payload |-> <<110, 111>>]>>}}

RECURSIVE Framed(_, _)
Framed(lines, k) ==
    IF k = 0 THEN <<>>
    ELSE Framed(lines, k - 1) \o PktLine(lines[k].band, lines[k].payload)

\* the body of a reply: the prefix, the lines, the flush packet
Body(prefix, lines) ==
    prefix \o Framed(lines, Len(lines)) \o <<48, 48, 48, 48>>

\* offsets at which a chunk may end: inside the first line, inside the
\* length of the first pack line, inside the word PACK, inside the flush
CutsOf(prefix, body) ==
    {{}} \cup {{c} : c \in {3, Len(prefix) + 2, Len(prefix) + 7,
                            Len(body) - 2}}
    \cup {{Len(prefix) + 7, Len(body) - 2}}

\* the replies a server may send, and one cut short by a closed connection
Replies ==
    UNION {{[lines |-> lines, complete |-> TRUE,
             stream |-> HttpResponse(Body(prefix, lines), cuts)] :
                cuts \in CutsOf(prefix, Body(prefix, lines))} :
           prefix \in ReplyPrefixes, lines \in PackLines}
    \cup {[lines |-> lines, complete |-> FALSE,
           stream |-> SubSeq(HttpResponse(Body(PackfileLine, lines), {}),
                             1, 30)] : lines \in PackLines}

\* process_command about to read the reply the server sends
InitChunk ==
    /\ pc = "read"
    /\ remote \in {[tip |-> NoSha, reply |-> r] : r \in Replies}
    /\ conn = [NoConn EXCEPT !.stream = remote.reply.stream]
    /\ copy = NoCopy
    /\ exit_code = -1
    /\ exit_at = ""
    /\ opt = [clone |-> TRUE, use_pack |-> FALSE, keep_pack |-> FALSE,
              want |-> NoSha, verify |-> FALSE]
    /\ clone = TRUE
    /\ have = NoSha
    /\ want = NoSha
    /\ agent = FALSE
    /\ disk = EmptyDisk
    /\ target_exists = FALSE
    /\ manifest_old = NoManifest
    /\ manifest_new = NoManifest
    /\ pack_file = NoPackFile
    /\ response = NoPack
    /\ object = <<>>
    /\ Objects = {}
    /\ Local_Files = <<>>
    /\ Remote_Files = <<>>
    /\ net = <<>>
    /\ writes = <<>>

\* what SSL_read may return when some bytes are left to arrive: a few of
\* them, or all that fit in the read buffer
ReadSizes(left) ==
    {n \in (1..MaxRead) \cup {left} : n <= left /\ n <= BUFFER_UNIT_SMALL}

\* process_command, lines 663-748, one turn of the loop: SSL_read returns
\* n bytes; when the zero-size chunk was seen the loop ends and the header
\* is removed
ReadResponse ==
    /\ pc = "read"
    /\ conn.stream # <<>>
    /\ \E n \in ReadSizes(Len(conn.stream)) :
          /\ IF process_read(conn, n).chunk_size = 0
             THEN /\ conn' = remove_header(process_read(conn, n))
                  /\ pc' = "strip"
             ELSE /\ conn' = process_read(conn, n)
                  /\ pc' = "read"
    /\ UNCHANGED <<exit_code, exit_at, opt, copy, clone, have, want, agent,
                   disk, target_exists, manifest_old, manifest_new,
                   pack_file, remote, response, object, Objects,
                   Local_Files, Remote_Files, net, writes>>

\* process_command, lines 666-667 and 746-748: SSL_read returns 0 and the
\* loop is left; without a header data_start is NULL
ReadClosed ==
    /\ pc = "read"
    /\ conn.stream = <<>>
    /\ IF conn.data_start = -1
       THEN Exit(139) /\ UNCHANGED conn
       ELSE /\ conn' = remove_header(conn)
            /\ pc' = "strip"
            /\ UNCHANGED <<exit_code, exit_at>>
    /\ UNCHANGED <<opt, copy, clone, have, want, agent, disk,
                   target_exists, manifest_old, manifest_new, pack_file,
                   remote, response, object, Objects, Local_Files,
                   Remote_Files, net, writes>>

\* fetch_pack, lines 991-1017: the pack is found and the pkt-line framing
\* is removed
StripPktLines ==
    /\ pc = "strip"
    /\ IF strstr(conn.response, 0, <<80, 65, 67, 75>>) = -1
       THEN Exit(1) /\ UNCHANGED conn
       ELSE IF ~pack_found(conn, strstr(conn.response, 0,
                                        <<80, 65, 67, 75>>)).ok
       THEN Exit(139) /\ UNCHANGED conn
       ELSE /\ conn' = pkt_lines_removed(
                           pack_found(conn, strstr(conn.response, 0,
                                                   <<80, 65, 67, 75>>)))
            /\ pc' = "checksum"
            /\ UNCHANGED <<exit_code, exit_at>>
    /\ UNCHANGED <<opt, copy, clone, have, want, agent, disk,
                   target_exists, manifest_old, manifest_new, pack_file,
                   remote, response, object, Objects, Local_Files,
                   Remote_Files, net, writes>>

\* fetch_pack, lines 1020-1025: the checksum of the pack is verified
VerifyChecksum ==
    /\ pc = "checksum"
    /\ IF conn.pack_size < 0 THEN Exit(139)
       ELSE IF ~checksum_matches(conn) THEN Exit(1)
       ELSE pc' = "verified" /\ UNCHANGED <<exit_code, exit_at>>
    /\ UNCHANGED <<opt, copy, conn, clone, have, want, agent, disk,
                   target_exists, manifest_old, manifest_new, pack_file,
                   remote, response, object, Objects, Local_Files,
                   Remote_Files, net, writes>>

NextChunk ==
    \/ ReadResponse
    \/ ReadClosed
    \/ StripPktLines
    \/ VerifyChecksum

\* process_command before the first read of a long reply
InitBuffer ==
    /\ pc = "fill"
    /\ conn = NoConn
    /\ remote = [tip |-> NoSha, reply |-> NoPack]
    /\ copy = NoCopy
    /\ exit_code = -1
    /\ exit_at = ""
    /\ opt = [clone |-> TRUE, use_pack |-> FALSE, keep_pack |-> FALSE,
              want |-> NoSha, verify |-> FALSE]
    /\ clone = TRUE
    /\ have = NoSha
    /\ want = NoSha
    /\ agent = FALSE
    /\ disk = EmptyDisk
    /\ target_exists = FALSE
    /\ manifest_old = NoManifest
    /\ manifest_new = NoManifest
    /\ pack_file = NoPackFile
    /\ response = NoPack
    /\ object = <<>>
    /\ Objects = {}
    /\ Local_Files = <<>>
    /\ Remote_Files = <<>>
    /\ net = <<>>
    /\ writes = <<>>

\* sizes of a read that fills the read buffer or all of it but one byte
FullReads == {BUFFER_UNIT_SMALL - 1, BUFFER_UNIT_SMALL}

\* lines 674-689 for a read of n bytes of which only the count is kept
counted(c, n) ==
    [c EXCEPT !.bytes_read = n,
              !.total_bytes_read = @ + n,
              !.response_blocks = response_blocks_for(c, n)]

\* line 687 and line 689 after the read that led to c: memcpy takes
\* bytes_read + 1 bytes from read_buffer and puts them at the old
\* total_bytes_read, the NUL goes to response[total_bytes_read]
copy_outside(c) ==
    \/ c.bytes_read + 1 > BUFFER_UNIT_SMALL
    \/ c.total_bytes_read + 1 > c.response_blocks * BUFFER_UNIT_LARGE

\* process_command, lines 663-698, one turn of the loop for a read inside
\* a long header or a long chunk: the bytes are added and no marker is
\* found.  A copy that leaves read_buffer or the response may fault.
ReadInside ==
    /\ pc = "fill"
    /\ \E n \in FullReads :
          /\ conn.total_bytes_read + n <= MaxBlocks * BUFFER_UNIT_LARGE
          /\ conn' = counted(conn, n)
          /\ \/ pc' = "fill" /\ UNCHANGED <<exit_code, exit_at>>
             \/ copy_outside(counted(conn, n)) /\ Exit(139)
    /\ UNCHANGED <<opt, copy, clone, have, want, agent, disk,
                   target_exists, manifest_old, manifest_new, pack_file,
                   remote, response, object, Objects, Local_Files,
                   Remote_Files, net, writes>>

NextBuffer == ReadInside

\* the seven bytes after a copy instruction; the first four stay below
\* 128, which keeps every offset below 2^31
OperandBytes ==
    {<<1, 2, 3, 4, 5, 6, 7>>, <<0, 0, 0, 0, 0, 0, 0>>,
     <<127, 126, 125, 124, 255, 254, 253>>, <<0, 9, 0, 0, 0, 0, 200>>}

\* apply_deltas about to decode a copy instruction: every instruction
\* byte with the high bit set, followed by operand bytes
InitCopy ==
    /\ pc = "copy"
    /\ copy \in {[delta |-> <<instruction>> \o bytes, position |-> 0,
                  offset |-> 0, length |-> 0] :
                    instruction \in 128..255, bytes \in OperandBytes}
    /\ exit_code = -1
    /\ exit_at = ""
    /\ opt = [clone |-> FALSE, use_pack |-> FALSE, keep_pack |-> FALSE,
              want |-> NoSha, verify |-> FALSE]
    /\ clone = FALSE
    /\ have = NoSha
    /\ want = NoSha
    /\ agent = FALSE
    /\ disk = EmptyDisk
    /\ target_exists = FALSE
    /\ manifest_old = NoManifest
    /\ manifest_new = NoManifest
    /\ pack_file = NoPackFile
    /\ remote = [tip |-> NoSha, reply |-> NoPack]
    /\ response = NoPack
    /\ object = <<>>
    /\ Objects = {}
    /\ Local_Files = <<>>
    /\ Remote_Files = <<>>
    /\ net = <<>>
    /\ writes = <<>>
    /\ conn = NoConn

\* the operands of the copy instruction at copy.position decoded to off
\* and len
copy_decoded(off, len) ==
    [copy EXCEPT !.position = len.position, !.offset = off.value,
                 !.length = copy_length(len.value)]

copy_operands(instruction, off, g) ==
    copy_decoded(off, unpack_delta_integer(copy.delta, off.position,
                                           (instruction \div 16) % 8, g))

\* apply_deltas, lines 1332-1343: the instruction byte, the offset and the
\* length
CopyOperands ==
    /\ pc = "copy"
    /\ \E g \in GarbageBytes :
          copy' = copy_operands(
                      copy.delta[copy.position + 1],
                      unpack_delta_integer(
                          copy.delta, copy.position + 1,
                          copy.delta[copy.position + 1] % 16, g),
                      g)
    /\ pc' = "copied"
    /\ UNCHANGED <<exit_code, exit_at, opt, clone, have, want, agent, disk,
                   target_exists, manifest_old, manifest_new, pack_file,
                   remote, response, object, Objects, Local_Files,
                   Remote_Files, net, writes, conn>>

NextCopy == CopyOperands

Next ==
    \/ Scan
    \/ LoadManifest
    \/ Discover
    \/ FetchPack
    \/ UnpackObjects
    \/ ApplyDeltas
    \/ SaveObjects
    \/ RemoveOld
    \/ RenameNew
    \/ WrapUp
    \/ Interrupt

Spec == Init /\ [][Next]_vars

SpecOfs == InitOfs /\ [][Next]_vars

SpecDelta == InitDelta /\ [][Next]_vars

SpecTree == InitTree /\ [][Next]_vars

SpecUnpack == InitUnpack /\ [][Next]_vars

SpecCopy == InitCopy /\ [][NextCopy]_vars

SpecChunk == InitChunk /\ [][NextChunk]_vars

SpecBuffer == InitBuffer /\ [][NextBuffer]_vars

(***************************************************************************)
(* Properties.                                                             *)
(***************************************************************************)
\* the requests that ask for a pack
Posts == SelectSeq(net, LAMBDA r : r.kind = "POST")

\* what the run wrote below the target directory or as a manifest
TreeWrites == SelectSeq(writes, LAMBDA w : w.op # "pack")

\* a pull session in which discovery advertised the tip of the manifest
PullSameTip ==
    /\ agent
    /\ ~clone
    /\ have # NoSha
    /\ remote.tip = have
    /\ want = have

\* fetch_pack accepted a pack of version 2 that declares no object
AcceptedEmptyPack ==
    /\ response.magic
    /\ response.version = PACK_VERSION
    /\ response.count = 0

C2_ManifestMatchesDisk ==
    (/\ pc = "exit"
     /\ exit_code = 0
     /\ writes # <<>>
     /\ Last(writes).op = "rename")
        => \A p \in DOMAIN manifest_old.rows :
              /\ disk[p].kind = "file"
              /\ calculate_file_sha(disk[p]) = manifest_old.rows[p].sha

\* the manifest has been read, if there is one: have tells whether
ManifestLoaded ==
    /\ pc \notin {"start", "load"}
    /\ exit_at \notin {"start", "load"}

Renamed == \E i \in 1..Len(writes) : writes[i].op = "rename"

\* C3: at every moment of a run, interrupted and failing runs included, the
\* live manifest path holds the complete old manifest (or nothing, when
\* there was none) or the complete new one.
C3_ManifestOldOrNew ==
    ManifestLoaded
        => \/ ~Renamed /\ have = NoSha /\ ~manifest_old.exists
           \/ ~Renamed /\ manifest_old.exists /\ manifest_old.tip = have
           \/ Renamed /\ manifest_old.exists /\ manifest_old.tip = want

RECURSIVE EncodedDistance(_, _, _)
\* the distance the offset bytes of an ofs-delta entry encode
EncodedDistance(bytes, i, v) ==
    IF i > Len(bytes) THEN v
    ELSE EncodedDistance(bytes, i + 1,
                         IF i = 1 THEN bytes[1] % 128
                         ELSE (v + 1) * 128 + (bytes[i] % 128))

\* the earlier concrete entries the distance of ofs-delta entry k lands on
OfsBases(es, k) ==
    {j \in 1..(k - 1) :
        /\ es[j].type < 6
        /\ EntryOffset(es, k) - EncodedDistance(es[k].ofs, 1, 0)
              = EntryOffset(es, j)}

DeltaEntries(p) == {k \in 1..Len(p.entries) : p.entries[k].type >= 6}

\* every delta of the pack is an ofs-delta on an earlier concrete entry
OfsOnConcrete(p) ==
    /\ p.magic
    /\ p.version = PACK_VERSION
    /\ DeltaEntries(p) # {}
    /\ \A k \in DeltaEntries(p) :
          p.entries[k].type = TYPE_OFS_DELTA /\ OfsBases(p.entries, k) # {}

\* the payload a delta yields on a base
DeltaTarget(base, delta) ==
    LET r == apply_one_delta(
                 [merge |-> base, layer |-> <<>>, new_file_size |-> 0],
                 delta, 0)
    IN  SubSeq(r.merge, 1, r.new_file_size)

InStore(buffer, type) ==
    RB_FIND_Objects([object |-> object, Objects |-> Objects],
                    calculate_object_sha(buffer, type)) # -1

\* C4: a pack whose ofs-deltas each point, by their distance, at an earlier
\* concrete entry (the first entry of the pack included) is unpacked and
\* resolved without error, and the store then holds each base and each
\* reconstructed object.
C4_OfsDeltaResolves ==
    OfsOnConcrete(response)
        => /\ ~(pc = "exit" /\ exit_at \in {"unpack", "apply"})
           /\ pc = "save"
                 => \A k \in DeltaEntries(response) :
                       \A j \in OfsBases(response.entries, k) :
                          LET b == response.entries[j]
                          IN  /\ InStore(b.data, b.type)
                              /\ InStore(DeltaTarget(
                                            b.data,
                                            response.entries[k].data),
                                         b.type)

\* the payloads with hash sha among the pack's concrete entries and the
\* scanned local files
RefBases(p, sha) ==
    {p.entries[j].data : j \in
        {j \in 1..Len(p.entries) :
            /\ p.entries[j].type < 6
            /\ calculate_object_sha(p.entries[j].data, p.entries[j].type)
                  = sha}}
    \cup {disk[f].data : f \in
             {f \in DOMAIN Local_Files : Local_Files[f].sha = sha}}

\* every delta of the pack is a ref-delta whose base is in the pack or is
\* a local file
RefOnAvailable(p) ==
    /\ p.magic
    /\ p.version = PACK_VERSION
    /\ DeltaEntries(p) # {}
    /\ \A k \in DeltaEntries(p) :
          /\ p.entries[k].type = TYPE_REF_DELTA
          /\ RefBases(p, p.entries[k].ref) # {}

\* C5: a ref-delta is resolved against the object that has its base hash,
\* looked for among the pack's objects first and among the local files
\* otherwise; resolution does not fail and the store then holds the
\* reconstructed object.
C5_RefDeltaResolves ==
    RefOnAvailable(response)
        => /\ ~(pc = "exit" /\ exit_at = "apply")
           /\ pc = "save"
                 => \A k \in DeltaEntries(response) :
                       \E b \in RefBases(response, response.entries[k].ref) :
                          \E t \in {TYPE_COMMIT, TYPE_TREE, TYPE_BLOB} :
                             InStore(DeltaTarget(b,
                                                 response.entries[k].data),
                                     t)

HasDotGit ==
    /\ target_exists
    /\ \E p \in DOMAIN disk :
          /\ disk[p].kind # "none"
          /\ Last(p) = DOT_GIT
          /\ \A n \in 1..(Len(p) - 1) : disk[SubSeq(p, 1, n)].kind = "dir"

\* C7: when the target directory holds an entry named ".git" at any depth
\* the run ends during the scan with a nonzero status, before any request
\* is sent and before anything is written.
C7_DotGitStopsScan ==
    HasDotGit
        => /\ pc \in {"start", "exit", "killed"}
           /\ exit_at \in {"", "start"}
           /\ (pc = "exit" => exit_code # 0)
           /\ net = <<>>
           /\ writes = <<>>

C7_Witness ==
    /\ HasDotGit
    /\ disk[<<2, DOT_GIT>>].kind # "none"
    /\ pc = "exit"
    /\ exit_at = "start"
    /\ exit_code = 1

\* C8, as the specification states it: a clone whose pack declares no
\* object and carries a valid trailer exits with status 0 and leaves a
\* manifest that holds the tip line only.
C8_EmptyPackManifest ==
    (AcceptedEmptyPack /\ pc = "exit" /\ (clone \/ have = NoSha))
        => /\ exit_code = 0
           /\ manifest_old.exists
           /\ manifest_old.tip = want
           /\ manifest_old.rows = <<>>

\* C8, amended: when the accepted pack declares no object the run exits
\* with status 0 without resolving or saving anything: it writes nothing
\* to the worktree, no staging manifest, and the live manifest stays as it
\* was, absent or with the old tip and rows.
C8_EmptyPackWritesNothing ==
    (AcceptedEmptyPack /\ pc = "exit")
        => /\ exit_code = 0
           /\ exit_at = "wrapup"
           /\ TreeWrites = <<>>
           /\ manifest_new = NoManifest
           /\ manifest_old.exists = (have # NoSha)
           /\ manifest_old.tip = have

C8_Witness ==
    /\ AcceptedEmptyPack
    /\ clone
    /\ ~manifest_old.exists
    /\ pc = "exit"
    /\ exit_code = 0
    /\ writes = <<>>

Resolved == pc \in {"save", "remove", "rename"}

\* C9, as the specification states it: once delta resolution has completed
\* the store holds no ofs-delta or ref-delta entry, neither in the
\* insertion-order sequence nor in the by-hash index.
C9_NoDeltaInStore ==
    Resolved
        => /\ \A i \in 1..Len(object) : object[i].type < 6
           /\ \A i \in Objects : object[i + 1].type < 6

\* C9, amended: once delta resolution has completed no ofs-delta or
\* ref-delta entry is reachable through the by-hash index; the delta
\* entries of the pack stay in the insertion-order sequence.
C9_NoDeltaInIndex ==
    Resolved
        => /\ \A i \in Objects : object[i + 1].type < 6
           /\ \A k \in DeltaEntries(response) :
                 \E i \in 1..Len(object) :
                    /\ object[i].type = response.entries[k].type
                    /\ object[i].pack_offset
                          = EntryOffset(response.entries, k)
                    /\ (i - 1) \notin Objects

C9_Witness ==
    /\ pc = "save"
    /\ \E i \in 1..Len(object) : object[i].type = TYPE_OFS_DELTA
    /\ \E i \in Objects : object[i + 1].pack_offset = 0

\* the pack fetch_pack reads: the pack file of -u, else the server's reply
PackRead ==
    IF opt.use_pack /\ pack_file.exists /\ ~pack_file.empty
    THEN pack_file.pack
    ELSE remote.reply

TrailerMismatch(p) == p.magic /\ p.trailer # PackBody(p)

\* C10: when the trailer of the pack, sent by the server or read from the
\* -u pack file, is not the hash of the bytes before it, the run ends with
\* an error before any object is stored and before any file is written.
C10_ChecksumBeforeStore ==
    TrailerMismatch(PackRead)
        => /\ pc \in {"start", "load", "discover", "fetch", "exit", "killed"}
           /\ (pc = "exit" => exit_code # 0)
           /\ response = NoPack
           /\ object = <<>>
           /\ Objects = {}
           /\ writes = <<>>

C10_Witness ==
    /\ TrailerMismatch(PackRead)
    /\ opt.use_pack
    /\ PackRead = pack_file.pack
    /\ pc = "exit"
    /\ exit_at = "fetch"
    /\ exit_code = 1

\* a pull over a worktree in which a path of the manifest is missing or
\* holds other content than the manifest records
PullDiverged ==
    /\ ~clone
    /\ manifest_old.exists
    /\ \E p \in DOMAIN manifest_old.rows :
          ~(/\ disk[p].kind = "file"
            /\ calculate_file_sha(disk[p]) = manifest_old.rows[p].sha)

C12_VerifyReadsOnly ==
    opt.verify
        => /\ net = <<>>
           /\ writes = <<>>
           /\ (pc = "exit" /\ manifest_old.exists
                  => (exit_code # 0)
                        = (\E p \in DOMAIN manifest_old.rows :
                              ~(/\ disk[p].kind = "file"
                                /\ calculate_file_sha(disk[p])
                                      = manifest_old.rows[p].sha)))

Store == [object |-> object, Objects |-> Objects]

\* C13: storing a concrete object whose hash the store already holds
\* leaves the store as it is, its sequence and its index alike, so storing
\* an object twice gives the store that storing it once gives; the index
\* never holds two entries with one hash and every concrete entry of the
\* sequence is indexed.
C13_StoreIdempotent ==
    /\ \A i \in Objects :
          store_object(Store, object[i + 1].type, object[i + 1].buffer,
                       0, 0, NoSha) = Store
    /\ \A b \in {BlobOld, BlobNew, BlobMod} :
          store_object(store_object(Store, TYPE_BLOB, b, 0, 0, NoSha),
                       TYPE_BLOB, b, 0, 0, NoSha)
             = store_object(Store, TYPE_BLOB, b, 0, 0, NoSha)
    /\ \A i \in Objects : \A j \in Objects :
          object[i + 1].sha = object[j + 1].sha => i = j
    /\ \A i \in 1..Len(object) : object[i].type < 6 => (i - 1) \in Objects

\* resolution produced an object that the store already held
C13_Witness ==
    /\ pc = "save"
    /\ DeltaEntries(response) # {}
    /\ Len(object)
          < Len(response.entries) + Cardinality(DeltaEntries(response))

\* ofs-delta entry k of es whose distance lands on no earlier entry
NoBaseOfs(es, k) ==
    /\ es[k].type = TYPE_OFS_DELTA
    /\ \A j \in 1..(k - 1) :
          EntryOffset(es, k) - EncodedDistance(es[k].ofs, 1, 0)
             # EntryOffset(es, j)

\* C14: a pack with an ofs-delta whose distance exceeds its own offset or
\* lands on no earlier entry, the first entry of the pack included, ends
\* the run with the missing-base error of unpack_objects, and no ofs-delta
\* is ever stored with a base index outside the store.
C14_MissingBaseRejected ==
    /\ \A i \in 1..Len(object) :
          object[i].type = TYPE_OFS_DELTA
             => object[i].index_delta \in 0..(Len(object) - 1)
    /\ (/\ response.magic
        /\ response.version = PACK_VERSION
        /\ \E k \in 1..Len(response.entries) :
              NoBaseOfs(response.entries, k))
          => /\ pc \in {"unpack", "exit", "killed"}
             /\ (pc = "exit" => exit_at = "unpack" /\ exit_code # 0)

\* the object stored for entry k of the accepted pack
StoredEntry(k) ==
    CHOOSE i \in 1..Len(object) :
        object[i].pack_offset = EntryOffset(response.entries, k)

\* C15: the distance unpack_objects decodes from one, two or three offset
\* bytes is the reference value (the low 7 bits of the first byte, then
\* ((value + 1) << 7) | (byte & 0x7F) for every further byte), and the base
\* is looked for at pack_offset minus that distance: the ofs-delta is
\* stored with the entry at exactly that offset as its base, and the
\* missing-base error is raised exactly when no entry starts there.
C15_OfsDistanceDecoded ==
    LET es == response.entries
        d == EncodedDistance(es[4].ofs, 1, 0)
        at == {j \in 1..3 : EntryOffset(es, j) = EntryOffset(es, 4) - d}
    IN  response.magic
           => /\ (pc \in {"apply", "save", "remove", "rename", "wrapup"}
                     => /\ at # {}
                        /\ object[StoredEntry(4)].type = TYPE_OFS_DELTA
                        /\ object[object[StoredEntry(4)].index_delta + 1]
                              .pack_offset = EntryOffset(es, 4) - d)
              /\ (pc = "exit" /\ exit_at = "unpack" => at = {})
              /\ (pc = "exit" /\ at = {} => exit_at = "unpack")

C15_Witness ==
    /\ response.magic
    /\ Len(response.entries[4].ofs) = 3
    /\ pc = "save"
    /\ object[4].index_delta = 2
    /\ InStore(BlobNew, TYPE_BLOB)

RECURSIVE CopyField(_, _, _, _, _)
\* the field of a copy instruction read by the format's rule: for each set
\* bit of bits from bit m up to bit width - 1, lowest first, the next byte
\* of the stream is the byte of that rank; a clear bit leaves the rank 0
CopyField(data, pos, bits, m, width) ==
    IF m >= width THEN [value |-> 0, position |-> pos]
    ELSE IF (bits \div (2 ^ m)) % 2 = 1
    THEN LET rest == CopyField(data, pos + 1, bits, m + 1, width)
         IN  [value |-> data[pos + 1] * (256 ^ m) + rest.value,
              position |-> rest.position]
    ELSE CopyField(data, pos, bits, m + 1, width)

RECURSIVE Instructions(_, _)
\* the instructions of a delta payload from position pos on, as the format
\* defines them: a byte with the high bit set is a copy with its offset
\* and length fields, any other byte b is an insert of the b bytes after it
Instructions(delta, pos) ==
    IF pos >= Len(delta) THEN <<>>
    ELSE IF delta[pos + 1] >= 128
    THEN LET off == CopyField(delta, pos + 1, delta[pos + 1] % 16, 0, 4)
             len == CopyField(delta, off.position,
                              (delta[pos + 1] \div 16) % 8, 0, 3)
         IN  <<[copy |-> TRUE, offset |-> off.value, at |-> pos,
                length |-> IF len.value = 0 THEN 65536 ELSE len.value]>>
             \o Instructions(delta, len.position)
    ELSE <<[copy |-> FALSE, offset |-> pos + 1, at |-> pos,
            length |-> delta[pos + 1]]>>
         \o Instructions(delta, pos + 1 + delta[pos + 1])

\* the payloads of this model give both sizes of the header in one byte
TargetSize(delta) == delta[2]
Steps(delta) == Instructions(delta, 2)

\* the entry an ofs-delta entry k names as its base
BaseEntry(es, k) ==
    CHOOSE j \in 1..(k - 1) :
        EntryOffset(es, j)
           = EntryOffset(es, k) - EncodedDistance(es[k].ofs, 1, 0)

\* the number of bytes a copy of entry k may address: the payload of a
\* concrete base, the target size of a delta base
SourceSize(es, k) ==
    IF es[BaseEntry(es, k)].type < 6 THEN Len(es[BaseEntry(es, k)].data)
    ELSE TargetSize(es[BaseEntry(es, k)].data)

\* some copy of entry k addresses bytes outside its source
CopyOutside(es, k) ==
    \E i \in 1..Len(Steps(es[k].data)) :
        /\ Steps(es[k].data)[i].copy
        /\ Steps(es[k].data)[i].offset + Steps(es[k].data)[i].length
              > SourceSize(es, k)

Applied == pc \in {"save", "remove", "rename", "wrapup"}

\* C16: every copy instruction that apply_deltas executes addresses bytes
\* inside its source, offset + length being at most the payload length of
\* the base or, in a chain, the target size of the layer before: a delta
\* with a copy outside that range ends the run with an error in
\* apply_deltas, so that resolution never completes with such a delta.
C16_CopyWithinBase ==
    response.magic /\ DeltaEntries(response) # {}
       => (Applied => \A k \in DeltaEntries(response) :
                          ~CopyOutside(response.entries, k))

RECURSIVE Produced(_, _)
\* the number of bytes the instructions steps[i..] produce
Produced(steps, i) ==
    IF i > Len(steps) THEN 0
    ELSE steps[i].length + Produced(steps, i + 1)

\* C17: a delta that apply_deltas applies yields exactly target_size bytes,
\* all of them produced by its instructions: when the instructions
\* produce fewer or more bytes than the header announces, the run ends
\* with an error in apply_deltas and no object is stored for the delta.
C17_TargetSizeExact ==
    response.magic /\ DeltaEntries(response) # {}
       => /\ Applied
                => \A k \in DeltaEntries(response) :
                      Produced(Steps(response.entries[k].data), 1)
                         = TargetSize(response.entries[k].data)
          /\ (\E k \in DeltaEntries(response) :
                 Produced(Steps(response.entries[k].data), 1)
                    # TargetSize(response.entries[k].data))
                => Len(object) <= Len(response.entries)

\* the number of set bits among the low seven bits of a copy instruction
OperandCount(instruction) ==
    Cardinality({m \in 0..6 : (instruction \div (2 ^ m)) % 2 = 1})

\* C18: the operands of a copy instruction are decoded as the format
\* says.  For each set bit of the 4-bit offset mask and then of the 3-bit
\* length mask, lowest bit first, one byte is taken from the stream in
\* order and becomes the byte of that rank; a clear bit leaves its rank
\* zero; the position moves past the instruction and one byte per set
\* bit; a length that decodes to 0 stands for 65536.
C18_CopyOperandsDecoded ==
    pc = "copied"
       => LET instruction == copy.delta[1]
              off == CopyField(copy.delta, 1, instruction % 16, 0, 4)
              len == CopyField(copy.delta, off.position,
                               (instruction \div 16) % 8, 0, 3)
          IN  /\ copy.offset = off.value
              /\ copy.length = IF len.value = 0 THEN 65536 ELSE len.value
              /\ copy.position = 1 + OperandCount(instruction)
              /\ \A m \in 0..3 :
                    (instruction \div (2 ^ m)) % 2 = 0
                       => (copy.offset \div (256 ^ m)) % 256 = 0

\* a copy with offset bits 0 and 2 set and no length bit: two bytes are
\* consumed, the second lands at rank 2, and the length is 65536
C18_Witness ==
    /\ pc = "copied"
    /\ copy.delta[1] = 128 + 5
    /\ copy.delta[2] = 127
    /\ copy.offset = 127 + 126 * 65536
    /\ copy.length = 65536
    /\ copy.position = 3

\* the payload of the root tree of the commit want, as the store holds it
WantTree ==
    LET c == Obj(Store, RB_FIND_Objects(Store, want)).buffer
    IN  Obj(Store, RB_FIND_Objects(Store, SubSeq(c, 3, 2 + c[2]))).buffer

RECURSIVE TreeItems(_, _)
TreeItems(buf, pos) ==
    IF pos >= Len(buf) THEN {}
    ELSE {extract_tree_item(buf, pos)}
         \cup TreeItems(buf, extract_tree_item(buf, pos).next)

\* the regular-file entries of the root tree
RegularItems ==
    {item \in TreeItems(WantTree, 0) :
        ~S_ISDIR(item.mode) /\ ~S_ISLNK(item.mode)}

\* save_objects ran to its end in this step
Saved == pc = "save" /\ pc' = "remove"

\* the step wrote the file at path
WrittenNow(path) ==
    \E i \in (Len(writes) + 1)..Len(writes') :
        writes'[i] = [op |-> "write", path |-> path]

\* the step left the path alone, or made it the file of the tree entry
SkippedOrWritten(item, skip) ==
    IF skip
    THEN ~WrittenNow(<<item.name>>) /\ disk'[<<item.name>>] = disk[<<item.name>>]
    ELSE /\ WrittenNow(<<item.name>>)
         /\ disk'[<<item.name>>]
               = [kind |-> "file", mode |-> item.mode,
                  data |-> Obj(Store, RB_FIND_Objects(Store, item.sha)).buffer]

\* C19 as stated: for a regular-file entry of the tree, save_tree skips the
\* path exactly when the prior manifest records the path with the hash of
\* the entry, and otherwise opens the path, creating or truncating it,
\* gives it the mode of the entry and writes the whole payload of the blob.
C19_SkipByManifest ==
    [][Saved => \A item \in RegularItems :
                  SkippedOrWritten(
                      item,
                      /\ manifest_old.exists
                      /\ <<item.name>> \in DOMAIN manifest_old.rows
                      /\ manifest_old.rows[<<item.name>>].sha = item.sha)]_vars

\* C19, amended: for a regular-file entry of the tree, save_tree skips the
\* path exactly when the scan of the target directory found a file at the
\* path whose content has the hash of the entry, and otherwise opens the
\* path, creating or truncating it, gives it the mode of the entry and
\* writes the whole payload of the blob.
C19_SkipByLocalFile ==
    [][Saved => \A item \in RegularItems :
                  SkippedOrWritten(
                      item,
                      /\ <<item.name>> \in DOMAIN Local_Files
                      /\ Local_Files[<<item.name>>].sha = item.sha)]_vars

\* the manifest records the path with the hash of the entry, the file on
\* disk differed, and the path was written
C19_Witness ==
    /\ pc = "remove"
    /\ manifest_old = ManifestOf(BlobNew)
    /\ \E i \in 1..Len(writes) : writes[i] = [op |-> "write", path |-> <<1>>]
    /\ disk[<<1>>] = File(BlobNew)

\* the run created or wrote the file or link at path
Emitted(path) ==
    \E i \in 1..Len(writes) :
        writes[i].path = path /\ writes[i].op \in {"write", "symlink"}

\* C20: every file or symbolic link that save_tree emitted is a row of the
\* new manifest with the mode, the hash and the path of its tree entry; a
\* file that was updated has its new hash there.
C20_EmittedRecorded ==
    pc = "remove"
       => \A item \in TreeItems(WantTree, 0) :
             Emitted(<<item.name>>)
                => /\ <<item.name>> \in DOMAIN manifest_new.rows
                   /\ manifest_new.rows[<<item.name>>]
                         = [mode |-> item.mode, sha |-> item.sha]

\* the server sent every object of the tip whose tree has the gitlink
GitlinkPackRead ==
    response = TipPack([root |-> TreeWithGitlink, rest |-> <<eBlobNew>>],
                       <<eBlobNew>>).reply

\* C21: a tree entry of mode 160000 is skipped: nothing is written at its
\* path, the lookup of its hash in the store does not fail the run, and
\* save_tree goes on with the entry after it.
C21_GitlinkSkipped ==
    GitlinkPackRead
       => /\ ~(pc = "exit" /\ exit_at = "save")
          /\ ~Emitted(<<4>>)
          /\ pc \in {"remove", "rename", "wrapup"}
                => disk[<<1>>] = File(BlobNew)

\* the server holds the tip whose tree has the link, and sends it whole
LinkTipServed ==
    remote = TipPack([root |-> TreeWithLink,
                      rest |-> <<Entry(TYPE_BLOB, BlobLink), eBlobNew>>],
                     <<Entry(TYPE_BLOB, BlobLink), eBlobNew>>)

\* C22: for a tree entry of mode 120000 the path becomes a symbolic link
\* to the payload of the blob, whether the path was absent or held a file or
\* a link of an earlier run, and what is at the path never fails the run,
\* neither in the scan of the worktree nor in save_tree.
C22_LinkCreatedOrReplaced ==
    LinkTipServed
       => /\ ~(pc = "exit" /\ exit_at \in {"start", "save"})
          /\ pc \in {"remove", "rename", "wrapup"}
                => disk[<<3>>] = Link(BlobLink)

RECURSIVE TreeFilePaths(_, _)
\* the paths of the regular files of the tree with payload buf at base
TreeFilePaths(buf, base) ==
    UNION {IF S_ISDIR(item.mode)
           THEN TreeFilePaths(
                    Obj(Store, RB_FIND_Objects(Store, item.sha)).buffer,
                    Append(base, item.name))
           ELSE IF S_ISLNK(item.mode) \/ item.mode = S_IFGITLINK THEN {}
           ELSE {Append(base, item.name)} :
              item \in TreeItems(buf, 0)}

\* C27: when save_objects has completed, the paths of the new manifest
\* are the paths of the regular files of the tip tree: a file skipped
\* because the local copy has the hash of its entry has a row, and a path
\* of the old manifest that the tip tree no longer has has none.
C27_ManifestPathsAreTipFiles ==
    pc = "remove"
       => DOMAIN manifest_new.rows = TreeFilePaths(WantTree, <<>>)

RECURSIVE TipIncomplete(_)
\* some subtree or blob that the tree with payload buf names, directly or
\* through its subtrees, is not in the store
TipIncomplete(buf) ==
    \E item \in TreeItems(buf, 0) :
        /\ item.mode # S_IFGITLINK
        /\ \/ RB_FIND_Objects(Store, item.sha) = -1
           \/ /\ S_ISDIR(item.mode)
              /\ TipIncomplete(
                     Obj(Store, RB_FIND_Objects(Store, item.sha)).buffer)

\* C28: when a subtree or a blob that the tip tree names is not in the
\* store, save_objects ends the run with an error, also when the local
\* file at the path already has the hash of the entry; no new manifest is
\* written and the live manifest stays as it was.
C28_MissingObjectFailsSave ==
    [][pc = "save" /\ TipIncomplete(WantTree)
          => /\ pc' \in {"exit", "killed"}
             /\ pc' = "exit" => exit_code' = 1
             /\ ~manifest_new'.exists
             /\ manifest_old' = manifest_old]_vars

\* the run ended in save_objects although the local file 1 has the hash of
\* its entry: the blob of the entry is not in the store
C28_Witness ==
    /\ pc = "exit"
    /\ exit_at = "save"
    /\ want = TipNew
    /\ <<1>> \in DOMAIN Local_Files
    /\ Local_Files[<<1>>].sha = ShaBlob(BlobNew)
    /\ RB_FIND_Objects(Store, ShaBlob(BlobNew)) = -1
    /\ ~manifest_new.exists
RECURSIVE BandPayload(_, _, _)
\* the payloads that lines 1..k carry on a band, in order
BandPayload(lines, k, band) ==
    IF k = 0 THEN <<>>
    ELSE BandPayload(lines, k - 1, band)
         \o (IF lines[k].band = band THEN lines[k].payload ELSE <<>>)

\* a complete reply whose packfile section has pack lines only
PackOnlyReply ==
    /\ remote.reply.complete
    /\ \A k \in 1..Len(remote.reply.lines) : remote.reply.lines[k].band = 1

\* C23: for a valid chunked reply, wherever the chunks end and however
\* the bytes are split into reads, the pack handed to the checksum
\* verification is the pack the server sent, with its size
C23_PackIndependentOfReads ==
    (pc = "checksum" /\ PackOnlyReply)
        => /\ conn.pack_size = Len(PackBytes) - SHA_SIZE
           /\ SubSeq(conn.response, 1, Len(PackBytes)) = PackBytes

\* the reply has a line on the error band
ErrorBandSent ==
    \E k \in 1..Len(remote.reply.lines) : remote.reply.lines[k].band = 3

\* C24: after the pkt-line framing is removed the response starts with
\* the payloads of the band 1 lines and nothing else, and a reply with a
\* band 3 line ends the run at that step instead
C24_OnlyPackBandKept ==
    (pc = "checksum" /\ remote.reply.complete)
        => /\ ~ErrorBandSent
           /\ SubSeq(conn.response, 1,
                     Len(BandPayload(remote.reply.lines,
                                     Len(remote.reply.lines), 1)))
                = BandPayload(remote.reply.lines, Len(remote.reply.lines), 1)

\* C30: after every read in process_command the bytes_read + 1 bytes
\* copied and the NUL lie inside the response_blocks blocks allocated,
\* and the copy takes no byte from beyond the read buffer
C30_CopyInsideBuffers ==
    (pc = "fill" /\ conn.bytes_read > 0)
        => /\ conn.total_bytes_read + 1
                <= conn.response_blocks * BUFFER_UNIT_LARGE
           /\ conn.bytes_read + 1 <= BUFFER_UNIT_SMALL

\* the entries of a pack that start at an offset
EntriesAt(es, offset) == {k \in 1..Len(es) : EntryOffset(es, k) = offset}

\* C25: when unpack_objects has stored the entries, the payload of every
\* object stored is as long as the header of its entry declares
C25_StoredSizeAsDeclared ==
    pc = "apply"
        => \A i \in 1..Len(object) :
              \A k \in EntriesAt(response.entries, object[i].pack_offset) :
                 Len(object[i].buffer) = response.entries[k].size

\* C29: when unpack_objects has stored the entries without ending the
\* run, the pack held as many entries as its header declares and no
\* object stored starts in the trailer
C29_DeclaredEntriesOrFailure ==
    pc = "apply"
        => /\ response.count <= Len(response.entries)
           /\ \A i \in 1..Len(object) :
                 object[i].pack_offset < EndOffset(response.entries)

\* C26: in every store that unpack_objects builds, the base index of an
\* ofs-delta designates an object stored strictly before the delta, so
\* that the chain walks of apply_deltas descend and end
C26_BaseStoredEarlier ==
    \A i \in 1..Len(object) :
       object[i].type = TYPE_OFS_DELTA
          => /\ object[i].index_delta >= 0
             /\ object[i].index_delta < object[i].index

====
